---- MODULE Spec2Model ----
(***************************************************************************)
(* A model of the 2-7 Triple Draw opening-hand trainer.                    *)
(*   src/unnamed/part_000 : the single-position (UTG) variant              *)
(*   src/app/page.tsx     : the multi-position variant with range notation *)
(*                          and positional inheritance                     *)
(* Notation strings are sequences of one-character strings, so that the    *)
(* regular-expression tests, charAt, slice, split and join of the source   *)
(* are computed character by character.                                    *)
(***************************************************************************)
EXTENDS Integers, Sequences, FiniteSets, TLC

VARIABLES
    pc,         \* position of the scenario in progress
    cmpIn,      \* the three inputs handed to compareLowballHands
    cmpOut,     \* the comparison results obtained from them
    dealVariant,\* which generateRandomHand runs: "utg" (part_000), "page"
    hand,       \* generateRandomHand: the cards pushed so far
    usedCards,  \* generateRandomHand: the card keys already used
    dealt,      \* generateRandomHand: the array returned
    positionStrategies, \* page.tsx: the stored PositionStrategy[]
    currentHand,\* gameState.currentHand
    evaluation, \* part_000: what evaluateUTGHand returned for currentHand
    evaluations,\* page.tsx: what evaluateHandForPosition returned, by position
    resolved,   \* page.tsx: the position last resolved and what getFullStrategy returned
    gameState,  \* part_000: the GameState of the learning and drill screens
    patternIn,  \* interpretBetterHand: the includes entry handed in as pattern
    testHandIn, \* interpretBetterHand: the candidate values handed in as testHand
    matched,    \* interpretBetterHand: the boolean returned
    compared    \* interpretBetterHand: what its call of compareLowballHands gave

cmpVars == <<cmpIn, cmpOut>>
dealVars == <<dealVariant, hand, usedCards, dealt>>
classVars == <<positionStrategies, currentHand, evaluation, evaluations, resolved, gameState>>
interpretVars == <<patternIn, testHandIn, matched, compared>>
vars == <<pc, cmpVars, dealVars, classVars, interpretVars>>

None == "none"

(***************************************************************************)
(* Bounds of the model.                                                    *)
(***************************************************************************)
\* longest comparator input
MaxCmpLen == 2
\* comparator inputs take the values 2 .. 1 + NumCmpValues
NumCmpValues == 3
\* generateRandomHand draws among the last NumDealRanks entries of its ranks
NumDealRanks == 3
\* generateRandomHand draws among the first NumDealSuits entries of its suits
NumDealSuits == 2
\* nested calls the runtime's call stack holds before it throws RangeError
MaxCallDepth == 8
\* suit assignments tried for each multiset of values: 0 .. NumSuitShifts
NumSuitShifts == 2

(***************************************************************************)
(* Array helpers of the JavaScript runtime.                                *)
(***************************************************************************)
RECURSIVE InsertAsc(_, _)
\* x placed into the ascending sequence s, after the elements equal to it
InsertAsc(x, s) ==
    IF s = <<>> THEN <<x>>
    ELSE IF x < Head(s) THEN <<x>> \o s
    ELSE <<Head(s)>> \o InsertAsc(x, Tail(s))

RECURSIVE SortAsc(_)
\* sort((a, b) => a - b)
SortAsc(s) ==
    IF s = <<>> THEN <<>>
    ELSE InsertAsc(s[Len(s)], SortAsc(SubSeq(s, 1, Len(s) - 1)))

RECURSIVE InsertDesc(_, _)
\* x placed into the descending sequence s, after the elements equal to it
InsertDesc(x, s) ==
    IF s = <<>> THEN <<x>>
    ELSE IF x > Head(s) THEN <<x>> \o s
    ELSE <<Head(s)>> \o InsertDesc(x, Tail(s))

RECURSIVE SortDesc(_)
\* sort((a, b) => b - a)
SortDesc(s) ==
    IF s = <<>> THEN <<>>
    ELSE InsertDesc(s[Len(s)], SortDesc(SubSeq(s, 1, Len(s) - 1)))

(***************************************************************************)
(* compareLowballHands.  A result is [nan, val]: nan is TRUE when the      *)
(* subtraction met an absent element (undefined), giving NaN.              *)
(***************************************************************************)
Num(v) == [nan |-> FALSE, val |-> v]
NaN == [nan |-> TRUE, val |-> 0]

\* r <= 0 in JavaScript: false for NaN
LeqZero(r) == ~r.nan /\ r.val <= 0

RECURSIVE CompareFrom(_, _, _)
\* the for loop over the two sorted arrays, from index i (1-based)
CompareFrom(sorted1, sorted2, i) ==
    IF i > Len(sorted1) THEN Num(0)
    ELSE IF i > Len(sorted2) THEN NaN
    ELSE IF sorted1[i] # sorted2[i] THEN Num(sorted1[i] - sorted2[i])
    ELSE CompareFrom(sorted1, sorted2, i + 1)

\* a faulty variant: the inputs are compared as given, unsorted
compareLowballHandsUnsorted(hand1, hand2) == CompareFrom(hand1, hand2, 1)

\* page.tsx
compareLowballHands(hand1, hand2) ==
    CompareFrom(SortDesc(hand1), SortDesc(hand2), 1)

\* a faulty variant: the two hands change places
compareLowballHandsUTGSwapped(hand1, hand2) ==
    CompareFrom(SortDesc(hand2), SortDesc(hand1), 1)

\* part_000
compareLowballHandsUTG(hand1, hand2) ==
    CompareFrom(SortDesc(hand1), SortDesc(hand2), 1)

(***************************************************************************)
(* Specification SpecCompare: the comparator applied to bounded inputs.    *)
(***************************************************************************)
CmpValues == 2 .. (1 + NumCmpValues)
CmpHands(n) == [1 .. n -> CmpValues]

IdleCompare == cmpIn = <<>> /\ cmpOut = None
IdleDeal == dealVariant = None /\ hand = <<>> /\ usedCards = {} /\ dealt = <<>>
IdleInterpret ==
    patternIn = <<>> /\ testHandIn = <<>> /\ matched = None /\ compared = None

IdleClassify ==
    /\ positionStrategies = <<>>
    /\ currentHand = <<>>
    /\ evaluation = None
    /\ evaluations = None
    /\ resolved = None
    /\ gameState = None

InitCompare ==
    /\ pc = "compare"
    /\ IdleDeal
    /\ IdleInterpret
    /\ IdleClassify
    /\ \E n \in 1 .. MaxCmpLen :
          cmpIn \in CmpHands(n) \X CmpHands(n) \X CmpHands(n)
    /\ cmpOut = None

\* every ordered pair of the three inputs is compared, by both variants
CompareAll ==
    /\ pc = "compare"
    /\ cmpOut' = [v \in {"page", "utg"} |->
                    [i \in 1 .. 3 |-> [j \in 1 .. 3 |->
                        IF v = "page"
                        THEN compareLowballHands(cmpIn[i], cmpIn[j])
                        ELSE compareLowballHandsUTG(cmpIn[i], cmpIn[j])]]]
    /\ pc' = "compared"
    /\ UNCHANGED <<cmpIn, dealVars, classVars, interpretVars>>

NextCompare == CompareAll

SpecCompare == InitCompare /\ [][NextCompare]_vars

(***************************************************************************)
(* C3                                                                      *)
(***************************************************************************)
Sign(r) == IF r.val < 0 THEN -1 ELSE IF r.val > 0 THEN 1 ELSE 0

RECURSIVE CountIn(_, _)
CountIn(s, x) ==
    IF s = <<>> THEN 0
    ELSE (IF Head(s) = x THEN 1 ELSE 0) + CountIn(Tail(s), x)

SameMultiset(a, b) ==
    /\ Len(a) = Len(b)
    /\ \A x \in CmpValues : CountIn(a, x) = CountIn(b, x)

\* C3: on inputs of equal length compareLowballHands (both variants) gives a
\* number whose sign is a total order on multisets: the sign of compare(A,B)
\* is the opposite of the sign of compare(B,A); compare(A,B) <= 0 and
\* compare(B,C) <= 0 give compare(A,C) <= 0; and the result is 0 exactly when A
\* and B hold the same values with the same multiplicities, in any order.
C3_TotalOrder ==
    pc = "compared" =>
        \A v \in {"page", "utg"} :
            LET c == cmpOut[v]
            IN  /\ \A i, j \in 1 .. 3 :
                     /\ ~c[i][j].nan
                     /\ Sign(c[i][j]) = -Sign(c[j][i])
                     /\ (c[i][j].val = 0) <=> SameMultiset(cmpIn[i], cmpIn[j])
                /\ \A i, j, k \in 1 .. 3 :
                     (LeqZero(c[i][j]) /\ LeqZero(c[j][k])) => LeqZero(c[i][k])

\* two inputs holding the same values in different orders have been compared
C3_Witness ==
    /\ pc = "compared"
    /\ cmpIn[1] # cmpIn[2]
    /\ SameMultiset(cmpIn[1], cmpIn[2])
    /\ cmpOut["page"][1][2].val = 0
    /\ cmpOut["utg"][2][3].val < 0

(***************************************************************************)
(* Cards and generateRandomHand.                                           *)
(***************************************************************************)
\* part_000: const ranks
RanksUTG == <<"2", "3", "4", "5", "6", "7", "8", "9", "T", "J", "Q", "K", "A">>
\* page.tsx: const ranks
RanksPage == <<"2", "3", "4", "5", "6", "7", "8", "9", "T">>
\* const suits: spades, hearts, diamonds, clubs
SuitList == <<"s", "h", "d", "c">>

Digits == <<"0", "1", "2", "3", "4", "5", "6", "7", "8", "9">>
IsDigit(c) == \E i \in 1 .. 10 : Digits[i] = c
\* the number a digit character stands for
DigitVal(c) == (CHOOSE i \in 1 .. 10 : Digits[i] = c) - 1

getValue(rank) ==
    CASE rank = "A" -> 14
      [] rank = "K" -> 13
      [] rank = "Q" -> 12
      [] rank = "J" -> 11
      [] rank = "T" -> 10
      [] OTHER -> DigitVal(rank)

\* the object pushed onto the hand; display is the pair <<rank, suit>>
MakeCard(rank, suit) ==
    [rank |-> rank, suit |-> suit, display |-> <<rank, suit>>,
     value |-> getValue(rank)]

\* `${rank}${suit}`
CardKey(rank, suit) == <<rank, suit>>

\* a faulty variant: the used-card set is never consulted
CardIsUsedNever(used, cardKey) == FALSE

\* usedCards.has(cardKey)
CardIsUsed(used, cardKey) == cardKey \in used

RECURSIVE InsertCardDesc(_, _)
InsertCardDesc(c, s) ==
    IF s = <<>> THEN <<c>>
    ELSE IF c.value > Head(s).value THEN <<c>> \o s
    ELSE <<Head(s)>> \o InsertCardDesc(c, Tail(s))

RECURSIVE SortCardsDesc(_)
\* hand.sort((a, b) => b.value - a.value): stable, high to low
SortCardsDesc(s) ==
    IF s = <<>> THEN <<>>
    ELSE InsertCardDesc(s[Len(s)], SortCardsDesc(SubSeq(s, 1, Len(s) - 1)))

DealRanksOf(variant) ==
    LET all == IF variant = "utg" THEN RanksUTG ELSE RanksPage
    IN  {all[i] : i \in (Len(all) - NumDealRanks + 1) .. Len(all)}
DealSuits == {SuitList[i] : i \in 1 .. NumDealSuits}

HandSize == 5

(***************************************************************************)
(* Strings.  A string is a sequence of one-character strings; a template   *)
(* literal is the concatenation of its pieces.                             *)
(***************************************************************************)
RECURSIVE ToChars(_)
\* String(n) for a non-negative integer
ToChars(n) ==
    IF n < 10 THEN <<Digits[n + 1]>>
    ELSE ToChars(n \div 10) \o <<Digits[(n % 10) + 1]>>

RECURSIVE JoinWith(_, _)
\* Array.prototype.join(sep) on an array of numbers
JoinWith(nums, sep) ==
    IF nums = <<>> THEN <<>>
    ELSE IF Len(nums) = 1 THEN ToChars(nums[1])
    ELSE ToChars(nums[1]) \o sep \o JoinWith(Tail(nums), sep)

\* arr.join("")
Join(nums) == JoinWith(nums, <<>>)
\* arr.toString()
ArrToString(nums) == JoinWith(nums, <<",">>)

\* haystack.includes(needle) on strings
StrIncludes(haystack, needle) ==
    \E i \in 0 .. (Len(haystack) - Len(needle)) :
        SubSeq(haystack, i + 1, i + Len(needle)) = needle

\* arr.includes(x)
ArrIncludes(arr, x) == \E i \in 1 .. Len(arr) : arr[i] = x

(***************************************************************************)
(* Shape detection, shared by both classifiers.                            *)
(***************************************************************************)
\* a faulty variant: Array.prototype.sort() without a comparator orders the values
\* by their decimal strings, so that 10 .. 14 come before 2 .. 9
HandValuesStringSort(h) ==
    LET vals == [i \in 1 .. Len(h) |-> h[i].value]
        key(v) == IF v >= 10 THEN v - 10 ELSE v + 10
        byKey == SortAsc([i \in 1 .. Len(vals) |-> key(vals[i])])
    IN  [i \in 1 .. Len(vals) |-> IF byKey[i] < 10 THEN byKey[i] + 10 ELSE byKey[i] - 10]

\* hand.map((card) => card.value).sort((a, b) => a - b)
HandValues(h) == SortAsc([i \in 1 .. Len(h) |-> h[i].value])

\* hand.map((card) => card.suit)
HandSuits(h) == [i \in 1 .. Len(h) |-> h[i].suit]

\* valueCounts[v] || 0
ValueCount(values, v) == Cardinality({i \in 1 .. Len(values) : values[i] = v})

\* Object.values(valueCounts).some((count) => count > 1)
HasPair(values) == \E i \in 1 .. Len(values) : ValueCount(values, values[i]) > 1

\* new Set(suits).size === 1
HasFlush(suits) == Cardinality({suits[i] : i \in 1 .. Len(suits)}) = 1

RECURSIVE Dedup(_)
\* [...new Set(vals)]: first occurrences, in order
Dedup(vals) ==
    IF vals = <<>> THEN <<>>
    ELSE LET init == Dedup(SubSeq(vals, 1, Len(vals) - 1))
             last == vals[Len(vals)]
         IN  IF ArrIncludes(init, last) THEN init ELSE Append(init, last)

\* Array.from(new Set(values)).sort((a, b) => a - b)
UniqueValues(values) == SortAsc(Dedup(values))

\* arr.slice(from, to), 0-based, end exclusive
Slice(arr, from, to) ==
    SubSeq(arr, from + 1, IF to < Len(arr) THEN to ELSE Len(arr))

isStraight(vals) ==
    IF Len(vals) < 5 THEN FALSE
    ELSE LET sorted == SortAsc(Dedup(vals))
         IN  IF Len(sorted) < 5 THEN FALSE
             ELSE \E i \in 0 .. (Len(sorted) - 5) :
                     \A j \in 1 .. 4 : sorted[i + j + 1] = sorted[i + j] + 1

\* values.toString() === "2,3,4,5,14"
HasWheel(values) ==
    ArrToString(values) = <<"2", ",", "3", ",", "4", ",", "5", ",", "1", "4">>

\* Math.max(...arr)
MaxOf(arr) == CHOOSE m \in {arr[i] : i \in 1 .. Len(arr)} :
                 \A i \in 1 .. Len(arr) : arr[i] <= m

(***************************************************************************)
(* evaluateUTGHand (part_000).  A result is [isPlayable, correctAction,    *)
(* category]; the explanation text is derived from the same data and is    *)
(* left out.                                                               *)
(***************************************************************************)
\* a faulty variant: the action returned is fold whatever isPlayable is
UTGResultAlwaysFold(playable, category) ==
    [isPlayable |-> playable, correctAction |-> "fold", category |-> category]

UTGResult(playable, category) ==
    [isPlayable |-> playable,
     correctAction |-> IF playable THEN "raise" ELSE "fold",
     category |-> category]

\* a faulty variant: the pat threshold is 7
UTGPatHighCardOkBelow8(highCard) == highCard < 8

\* highCard <= 8
UTGPatHighCardOk(highCard) == highCard <= 8

\* a faulty variant: the literal is written high to low, as the hand is displayed
UTGIsTrapDescending(uniqueValues) ==
    /\ Len(uniqueValues) >= 4
    /\ ArrToString(Slice(uniqueValues, 0, 4)) = <<"7", ",", "6", ",", "5", ",", "4">>

\* step 2: uniqueValues.slice(0, 4).toString() === "4,5,6,7"
UTGIsTrap(uniqueValues) ==
    /\ Len(uniqueValues) >= 4
    /\ ArrToString(Slice(uniqueValues, 0, 4)) = <<"4", ",", "5", ",", "6", ",", "7">>

\* step 3: the four best cards, <<>> standing for null
FourBestCards(uniqueValues) ==
    IF Len(uniqueValues) = 4 THEN uniqueValues
    ELSE IF Len(uniqueValues) = 5 THEN Slice(uniqueValues, 0, 4)
    ELSE <<>>

\* step 5: threeCardDraws, holding at most one draw
ThreeCardDraws(uniqueValues) ==
    IF Len(uniqueValues) >= 3
    THEN LET otherCards == SelectSeq(uniqueValues, LAMBDA v : v # 2)
         IN  IF Len(otherCards) >= 2
             THEN <<<<2, otherCards[1], otherCards[2]>>>>
             ELSE <<>>
    ELSE <<>>

\* a faulty variant: the benchmark 842 is missing
UTGDraw2BenchmarksWithout842 ==
    << [name |-> <<"5", "4", "2">>, benchmark |-> <<5, 4, 2>>],
       [name |-> <<"7", "5", "2">>, benchmark |-> <<7, 5, 2>>] >>

\* step 5: Object.entries(benchmarks), integer-like keys in ascending order
UTGDraw2Benchmarks ==
    << [name |-> <<"5", "4", "2">>, benchmark |-> <<5, 4, 2>>],
       [name |-> <<"7", "5", "2">>, benchmark |-> <<7, 5, 2>>],
       [name |-> <<"8", "4", "2">>, benchmark |-> <<8, 4, 2>>] >>

\* a faulty variant: one 2 is enough
UTGHasPairOfTwosOneEnough(values) == ValueCount(values, 2) >= 1

\* step 4: valueCounts[2] >= 2
UTGHasPairOfTwos(values) == ValueCount(values, 2) >= 2

evaluateUTGHand(h) ==
    LET values == HandValues(h)
        suits == HandSuits(h)
        hasPair == HasPair(values)
        hasFlush == HasFlush(suits)
        hasStraightInHand == isStraight(values)
        hasWheel == HasWheel(values)
        uniqueValues == UniqueValues(values)
        fourBestCards == FourBestCards(uniqueValues)
        has632Pattern ==
            /\ Len(uniqueValues) = 5
            /\ ArrIncludes(values, 6) /\ ArrIncludes(values, 3) /\ ArrIncludes(values, 2)
            /\ MaxOf(values) > 8
        has762Pattern ==
            /\ Len(uniqueValues) = 5
            /\ ArrIncludes(values, 7) /\ ArrIncludes(values, 6) /\ ArrIncludes(values, 2)
            /\ MaxOf(values) > 8
        draws == IF ArrIncludes(values, 2) THEN ThreeCardDraws(uniqueValues) ELSE <<>>
        hits == IF draws = <<>> THEN {}
                ELSE {k \in 1 .. Len(UTGDraw2Benchmarks) :
                        LeqZero(compareLowballHandsUTG(draws[1], UTGDraw2Benchmarks[k].benchmark))}
        twoCount == ValueCount(values, 2)
        threeCount == ValueCount(values, 3)
    IN  IF ~hasPair /\ ~hasFlush /\ ~hasStraightInHand /\ ~hasWheel
           /\ UTGPatHighCardOk(values[5])
        THEN UTGResult(TRUE, <<"Pat ">> \o ToChars(values[5]) \o <<"-high">>)
        ELSE IF UTGIsTrap(uniqueValues)
        THEN UTGResult(FALSE, <<"x7654 Trap Hand">>)
        ELSE IF fourBestCards # <<>> /\ ~isStraight(fourBestCards)
                /\ LeqZero(compareLowballHandsUTG(fourBestCards, <<8, 6, 5, 4>>))
        THEN UTGResult(TRUE, <<"Draw 1 (">> \o Join(fourBestCards) \o <<")">>)
        ELSE IF has632Pattern \/ has762Pattern
        THEN IF UTGHasPairOfTwos(values)
             THEN UTGResult(TRUE, <<"Draw 2 (Special Blocker)">>)
             ELSE UTGResult(FALSE, <<"Weak Draw 2">>)
        ELSE IF hits # {}
        THEN LET k == CHOOSE x \in hits : \A y \in hits : x <= y
             IN  UTGResult(TRUE, <<"Draw 2 (">> \o UTGDraw2Benchmarks[k].name \o <<"+)">>)
        ELSE IF twoCount >= 2 /\ threeCount >= 2
        THEN UTGResult(TRUE, <<"Draw 3 (3322x Blocker)">>)
        ELSE IF twoCount >= 3
                /\ (ArrIncludes(values, 3) \/ ArrIncludes(values, 4) \/ ArrIncludes(values, 7))
        THEN LET kicker == SelectSeq(values, LAMBDA v : v = 3 \/ v = 4 \/ v = 7)[1]
             IN  UTGResult(TRUE, <<"Draw 3 (">> \o ToChars(kicker) \o <<"222x Blocker)">>)
        ELSE UTGResult(FALSE, <<"Fold">>)

(***************************************************************************)
(* Range notation and the position strategy store (page.tsx).              *)
(* A HandRange is [fmt, includes, excludes]: fmt "range" is the object     *)
(* form, fmt "list" the legacy string[] form (its entries under includes), *)
(* fmt "absent" a missing value.  A notation string that matches none of   *)
(* the regular expressions and is never equal to a digit string or "all"   *)
(* (prose such as "limp 2") is written as one token.                       *)
(***************************************************************************)
Range(inc, exc) == [fmt |-> "range", includes |-> inc, excludes |-> exc]
LegacyRange(items) == [fmt |-> "list", includes |-> items, excludes |-> <<>>]
NoRange == Range(<<>>, <<>>)

Strategy(position, pat, d1, d2, d3, d4, parent) ==
    [position |-> position, patHands |-> pat, draw1Hands |-> d1,
     draw2Hands |-> d2, draw3Hands |-> d3, draw4Hands |-> d4,
     inheritsFrom |-> parent]

\* useState<PositionStrategy[]>([...]): the built-in strategy set
BuiltInStrategies ==
    << Strategy("UTG",
          Range(<< <<"8", "s", "+">> >>, <<>>),
          Range(<< <<"8", "6", "5", "4", "+">> >>, << <<"7", "6", "5", "4">> >>),
          Range(<< <<"5", "4", "2", "+">>, <<"7", "5", "2", "+">>, <<"8", "4", "2", "+">>,
                   <<"6", "3", "2", "2", "+">>, <<"7", "6", "2", "2", "+">> >>, <<>>),
          Range(<< <<"3", "2", "2", "2">>, <<"3", "3", "2", "2">>, <<"3", "3", "3", "2">>,
                   <<"4", "2", "2", "2">>, <<"7", "2", "2", "2">> >>, <<>>),
          NoRange, None),
       Strategy("HJ",
          NoRange,
          Range(<< <<"8", "7", "5", "3">>, <<"8", "7", "5", "4">> >>, <<>>),
          Range(<< <<"7", "6", "2">>, <<"8", "5", "2">>, <<"7", "5", "3">>,
                   <<"6", "3", "2", "2">>, <<"8", "7", "2", "2">> >>, <<>>),
          Range(<< <<"3", "2", "2", "2">>, <<"3", "3", "2", "2">>, <<"4", "4", "2", "2">>,
                   <<"5", "2", "2", "2">>, <<"7", "7", "2", "2">> >>, <<>>),
          NoRange, "UTG"),
       Strategy("CO",
          Range(<< <<"9", "6", "5", "4", "3">>, <<"9", "7", "6", "5", "4">> >>, <<>>),
          NoRange,
          Range(<< <<"6", "3", "2">>, <<"7", "5", "4">>, <<"8", "5", "4">>,
                   <<"8", "7", "2">> >>, <<>>),
          Range(<< <<"3", "2">>, <<"4", "2">>, <<"7", "2">>, <<"5", "2", "2">> >>, <<>>),
          NoRange, "HJ"),
       Strategy("BTN",
          Range(<< <<"T", "9", "8", "7", "5">>, <<"T", "8", "7", "6", "5">>,
                   <<"T", "7", "6", "5", "4">>, <<"T", "6", "5", "4", "3">> >>, <<>>),
          Range(<< <<"a", "l", "l">> >>, <<>>),
          Range(<< <<"a", "l", "l">> >>,
                << <<"6", "5", "4">>, <<"7", "6", "5">>, <<"8", "7", "6">> >>),
          Range(<< <<"5", "2">>, <<"6", "2", "2">>, <<"8", "2", "2">> >>, <<>>),
          Range(<< <<"2", "2">> >>, <<>>), "CO"),
       Strategy("SB",
          NoRange, NoRange,
          Range(<< <<"limp/raise strategy">> >>, <<>>),
          Range(<< <<"limp/raise strategy">> >>, <<>>),
          Range(<< <<"limp 2">>, <<"33-55">> >>, <<>>), "BTN"),
       Strategy("BB",
          NoRange, NoRange,
          Range(<< <<"vs SB limp: any d2">> >>, <<>>),
          Range(<< <<"vs SB limp: 63+">> >>, <<>>),
          NoRange, "SB") >>

\* type LearningPosition
LearningPositions == {"UTG", "HJ", "CO", "BTN", "SB", "BB"}

RangeCategories == {"patHands", "draw1Hands", "draw2Hands", "draw3Hands", "draw4Hands"}

convertLegacyHandRange(legacyData) ==
    IF legacyData.fmt = "range" THEN Range(legacyData.includes, legacyData.excludes)
    ELSE IF legacyData.fmt = "list" THEN Range(legacyData.includes, <<>>)
    ELSE Range(<<>>, <<>>)

\* /^\d+s\+$/
MatchesPatThreshold(pattern) ==
    /\ Len(pattern) >= 3
    /\ pattern[Len(pattern)] = "+"
    /\ pattern[Len(pattern) - 1] = "s"
    /\ \A i \in 1 .. (Len(pattern) - 2) : IsDigit(pattern[i])

\* /^\d{n}\+$/
MatchesDigitsPlus(pattern, n) ==
    /\ Len(pattern) = n + 1
    /\ pattern[n + 1] = "+"
    /\ \A i \in 1 .. n : IsDigit(pattern[i])

\* pattern.slice(0, -1).split("").map(Number).sort((a, b) => a - b)
BenchmarkOf(pattern) ==
    SortAsc([i \in 1 .. (Len(pattern) - 1) |-> DigitVal(pattern[i])])

\* highCard <= threshold, threshold being the first character's digit
PatThresholdHolds(pattern, testHand) == MaxOf(testHand) <= DigitVal(pattern[1])

interpretBetterHand(pattern, testHand) ==
    IF MatchesPatThreshold(pattern)
    THEN PatThresholdHolds(pattern, testHand)
    ELSE IF MatchesDigitsPlus(pattern, 4)
    THEN LeqZero(compareLowballHands(testHand, BenchmarkOf(pattern)))
    ELSE IF MatchesDigitsPlus(pattern, 3)
    THEN LeqZero(compareLowballHands(testHand, BenchmarkOf(pattern)))
    ELSE IF MatchesDigitsPlus(pattern, 4) /\ StrIncludes(pattern, <<"2", "2">>)
    THEN /\ ArrIncludes(testHand, DigitVal(pattern[1]))
         /\ ArrIncludes(testHand, DigitVal(pattern[2]))
         /\ ValueCount(testHand, DigitVal(pattern[3])) >= 2
    ELSE FALSE

(***************************************************************************)
(* getFullStrategy.  A result is [status, strategy, parentSteps]: status   *)
(* "ok" with the strategy returned, "undefined" when positionStrategies[0] *)
(* is returned from an empty store, "TypeError" when a property of the     *)
(* parent's result cannot be spread, "RangeError" when the recursion       *)
(* exhausts the call stack; parentSteps counts the nested calls made.      *)
(***************************************************************************)
EmptyStrategy == Strategy(None, NoRange, NoRange, NoRange, NoRange, NoRange, None)

Resolved(strategy, steps) ==
    [status |-> "ok", strategy |-> strategy, parentSteps |-> steps]
ResolveFailed(status, steps) ==
    [status |-> status, strategy |-> EmptyStrategy, parentSteps |-> steps]

\* positionStrategies.find((s) => s.position === position): 0 when undefined
FindStrategy(strats, position) ==
    LET found == {i \in 1 .. Len(strats) : strats[i].position = position}
    IN  IF found = {} THEN 0 ELSE CHOOSE i \in found : \A j \in found : i <= j

\* a faulty variant: the position's own entries come first
MergeRangeOwnFirst(parentRange, ownRange) ==
    Range(ownRange.includes \o parentRange.includes,
          ownRange.excludes \o parentRange.excludes)

\* a faulty variant: the parent's entries are dropped
MergeRangeOwnOnly(parentRange, ownRange) ==
    Range(ownRange.includes, ownRange.excludes)

\* { includes: [...parent.includes, ...current.includes],
\*   excludes: [...parent.excludes, ...current.excludes] }
MergeRange(parentRange, ownRange) ==
    Range(parentRange.includes \o ownRange.includes,
          parentRange.excludes \o ownRange.excludes)

\* whether includes and excludes of every range of a strategy are arrays
RangesReadable(strategy) == \A c \in RangeCategories : strategy[c].fmt = "range"

RECURSIVE getFullStrategyAt(_, _, _)
\* getFullStrategy(position) running in the depth-th nested call
getFullStrategyAt(strats, position, depth) ==
    LET k == FindStrategy(strats, position)
    IN  IF k = 0
        THEN IF Len(strats) = 0 THEN ResolveFailed("undefined", 0)
             ELSE Resolved(strats[1], 0)
        ELSE LET strategy == strats[k]
             IN  IF strategy.inheritsFrom = None
                 THEN Resolved([c \in DOMAIN strategy |->
                                  IF c \in RangeCategories
                                  THEN convertLegacyHandRange(strategy[c])
                                  ELSE strategy[c]], 0)
                 ELSE IF depth >= MaxCallDepth
                 THEN ResolveFailed("RangeError", 1)
                 ELSE LET parent == getFullStrategyAt(strats, strategy.inheritsFrom, depth + 1)
                      IN  IF parent.status = "RangeError"
                          THEN ResolveFailed("RangeError", parent.parentSteps + 1)
                          ELSE IF parent.status # "ok" \/ ~RangesReadable(parent.strategy)
                          THEN ResolveFailed("TypeError", parent.parentSteps + 1)
                          ELSE Resolved([c \in DOMAIN strategy |->
                                           IF c \in RangeCategories
                                           THEN MergeRange(parent.strategy[c],
                                                    convertLegacyHandRange(strategy[c]))
                                           ELSE strategy[c]],
                                        parent.parentSteps + 1)

getFullStrategy(strats, position) == getFullStrategyAt(strats, position, 1)

(***************************************************************************)
(* evaluateHandForPosition.  A result is [status, isPlayable,              *)
(* correctAction, category, ruleUsed, benchmark]; status is "ok" when a    *)
(* result is returned and the error's name when the call throws.           *)
(***************************************************************************)
PosResult(playable, category, ruleUsed, benchmark) ==
    [status |-> "ok", isPlayable |-> playable,
     correctAction |-> IF playable THEN "raise" ELSE "fold",
     category |-> category, ruleUsed |-> ruleUsed, benchmark |-> benchmark]

PosThrows(error) ==
    [status |-> error, isPlayable |-> FALSE, correctAction |-> None,
     category |-> <<>>, ruleUsed |-> <<>>, benchmark |-> <<>>]

\* the indices of arr, in order, that satisfy a test; 0 when there is none
FirstOf(hits) == IF hits = {} THEN 0 ELSE CHOOSE i \in hits : \A j \in hits : i <= j

\* a faulty variant: the excluded literal is matched as it is written, high to low
Draw1ExcludedAsWritten(excludes, handString) ==
    /\ ArrIncludes(excludes, handString) \/ ArrIncludes(excludes, <<"7", "6", "5", "4">>)
    /\ handString = <<"7", "6", "5", "4">>

\* (excludes.includes(handString) || excludes.includes("7654")) && handString === "4567"
Draw1Excluded(excludes, handString) ==
    /\ ArrIncludes(excludes, handString) \/ ArrIncludes(excludes, <<"7", "6", "5", "4">>)
    /\ handString = <<"4", "5", "6", "7">>

\* isInherited ? `Inherited ${kind} (${pattern})` : `${kind} (${pattern})`
RuleUsedFor(position, inherited, plain, pattern) ==
    (IF position # "UTG" THEN <<inherited>> ELSE <<plain>>) \o pattern \o <<")">>

\* a faulty variant: a draw named in the excludes of the draw-2 range is skipped
Draw2HitHonouringExcludes(draw2Strategy, draws) ==
    IF draws = <<>> \/ draw2Strategy.fmt # "range" THEN 0
    ELSE IF ArrIncludes(draw2Strategy.excludes, Join(draws[1])) THEN 0
    ELSE FirstOf({i \in 1 .. Len(draw2Strategy.includes) :
                    interpretBetterHand(draw2Strategy.includes[i], draws[1])})

\* the draw-2 loops: the index of the first includes entry that admits the
\* draw, 0 when there is none
Draw2Hit(draw2Strategy, draws) ==
    IF draws = <<>> \/ draw2Strategy.fmt # "range" THEN 0
    ELSE FirstOf({i \in 1 .. Len(draw2Strategy.includes) :
                    interpretBetterHand(draw2Strategy.includes[i], draws[1])})

evaluateHandForPosition(strats, h, position) ==
    LET values == HandValues(h)
        suits == HandSuits(h)
        hasPair == HasPair(values)
        hasFlush == HasFlush(suits)
        hasStraightInHand == isStraight(values)
        hasWheel == HasWheel(values)
        full == getFullStrategy(strats, position)
        strategy == full.strategy
        uniqueValues == UniqueValues(values)
        patIncludes == strategy.patHands.includes
        patHit == IF ~hasPair /\ ~hasFlush /\ ~hasStraightInHand /\ ~hasWheel
                       /\ strategy.patHands.fmt = "range"
                  THEN FirstOf({i \in 1 .. Len(patIncludes) :
                                  interpretBetterHand(patIncludes[i], values)})
                  ELSE 0
        fourBestCards == FourBestCards(uniqueValues)
        draw1Strategy == strategy.draw1Hands
        handString == Join(fourBestCards)
        draw1Tested == fourBestCards # <<>> /\ ~isStraight(fourBestCards)
        draw1Hit == IF draw1Tested /\ draw1Strategy.fmt = "range"
                    THEN FirstOf({i \in 1 .. Len(draw1Strategy.includes) :
                                    \/ draw1Strategy.includes[i] = <<"a", "l", "l">>
                                    \/ interpretBetterHand(draw1Strategy.includes[i],
                                                           fourBestCards)})
                    ELSE 0
        draw2Strategy == strategy.draw2Hands
        draws == IF ArrIncludes(values, 2) THEN ThreeCardDraws(uniqueValues) ELSE <<>>
        draw2Hit == Draw2Hit(draw2Strategy, draws)
        patTested == ~hasPair /\ ~hasFlush /\ ~hasStraightInHand /\ ~hasWheel
    IN  IF full.status # "ok" THEN PosThrows(full.status)
        ELSE IF patTested /\ strategy.patHands.fmt # "range" THEN PosThrows("TypeError")
        ELSE IF patHit # 0
        THEN PosResult(TRUE, <<"Pat ">> \o ToChars(values[5]) \o <<"-high">>,
                       RuleUsedFor(position, "Inherited Pat Range (", "Pat Range (",
                                   patIncludes[patHit]),
                       patIncludes[patHit])
        ELSE IF draw1Tested /\ draw1Strategy.fmt # "range" THEN PosThrows("TypeError")
        ELSE IF draw1Tested /\ Draw1Excluded(draw1Strategy.excludes, handString)
        THEN PosResult(FALSE, <<"Draw 1 Excluded (7654)">>,
                       <<position, " Draw 1 Exclusion">>, <<"7654 excluded">>)
        ELSE IF draw1Hit # 0
        THEN PosResult(TRUE, <<"Draw 1 (">> \o handString \o <<")">>,
                       RuleUsedFor(position, "Inherited Draw 1 (", "Draw 1 (",
                                   draw1Strategy.includes[draw1Hit]),
                       draw1Strategy.includes[draw1Hit])
        ELSE IF draw1Tested /\ ArrIncludes(draw1Strategy.includes, handString)
        THEN PosResult(TRUE, <<"Draw 1 (">> \o handString \o <<")">>,
                       <<position, " Draw 1 Specific">>, handString)
        ELSE IF draws # <<>> /\ draw2Strategy.fmt # "range" THEN PosThrows("TypeError")
        ELSE IF draw2Hit # 0
        THEN PosResult(TRUE, <<"Draw 2 (">> \o Join(draws[1]) \o <<")">>,
                       RuleUsedFor(position, "Inherited Draw 2 (", "Draw 2 (",
                                   draw2Strategy.includes[draw2Hit]),
                       draw2Strategy.includes[draw2Hit])
        ELSE PosResult(FALSE, <<"Fold">>, <<position, " Minimum Standards">>,
                       <<"Below ", position, " threshold">>)

(***************************************************************************)
(* Specification SpecDeal: generateRandomHand, one loop iteration per      *)
(* step, the two random indices being the inputs of the step.              *)
(***************************************************************************)
InitDeal ==
    /\ pc = "dealing"
    /\ IdleCompare
    /\ IdleClassify
    /\ IdleInterpret
    /\ dealVariant \in {"utg", "page"}
    /\ hand = <<>>
    /\ usedCards = {}
    /\ dealt = <<>>

\* one iteration of the while loop
DrawCard(rank, suit) ==
    /\ pc = "dealing"
    /\ Len(hand) < HandSize
    /\ IF ~CardIsUsed(usedCards, CardKey(rank, suit))
       THEN /\ usedCards' = usedCards \cup {CardKey(rank, suit)}
            /\ hand' = Append(hand, MakeCard(rank, suit))
       ELSE UNCHANGED <<usedCards, hand>>
    /\ UNCHANGED <<pc, cmpVars, classVars, interpretVars, dealVariant, dealt>>

\* the loop has ended: the sorted hand is returned
ReturnHand ==
    /\ pc = "dealing"
    /\ Len(hand) >= HandSize
    /\ dealt' = SortCardsDesc(hand)
    /\ pc' = "dealt"
    /\ UNCHANGED <<cmpVars, classVars, interpretVars, dealVariant, hand, usedCards>>

NextDeal ==
    \/ \E rank \in DealRanksOf(dealVariant), suit \in DealSuits :
          DrawCard(rank, suit)
    \/ ReturnHand

SpecDeal == InitDeal /\ [][NextDeal]_vars

(***************************************************************************)
(* C5                                                                      *)
(***************************************************************************)
DistinctCards(s) ==
    \A i, j \in 1 .. Len(s) :
        (s[i].rank = s[j].rank /\ s[i].suit = s[j].suit) => i = j

\* C5: generateRandomHand (both variants) returns exactly five cards, no two
\* of the same rank and suit, whatever the random draws; while the loop runs
\* the hand never holds a duplicate and holds exactly the cards whose keys are
\* in the used-card set, so a rejected draw adds nothing.
C5_DealUnique ==
    /\ DistinctCards(hand)
    /\ Len(hand) <= HandSize
    /\ Cardinality(usedCards) = Len(hand)
    /\ pc = "dealt" =>
          /\ Len(dealt) = HandSize
          /\ DistinctCards(dealt)
          /\ \A i \in 1 .. HandSize : \E j \in 1 .. HandSize : dealt[i] = hand[j]
          /\ \A i \in 1 .. HandSize - 1 : dealt[i].value >= dealt[i + 1].value

\* the 13-rank variant returned a hand holding two aces, which
\* only the suit tells apart
C5_Witness ==
    /\ pc = "dealt"
    /\ dealVariant = "utg"
    /\ \E i, j \in 1 .. HandSize :
          i # j /\ dealt[i].rank = dealt[j].rank /\ dealt[i].value = 14

(***************************************************************************)
(* The hands handed to the classifiers.  Every multiset of five values in  *)
(* 2 .. maxV that five distinct cards can show, high to low as             *)
(* generateRandomHand returns it; the k-th card of a value takes the k-th  *)
(* suit, and with shift i > 0 the i-th card takes the next suit instead.   *)
(* Five distinct values give a one-suit hand with shift 0 and a two-suit   *)
(* hand with shift 1.                                                      *)
(***************************************************************************)
RECURSIVE NonIncreasing(_, _)
NonIncreasing(n, maxV) ==
    IF n = 0 THEN {<<>>}
    ELSE UNION {{<<v>> \o t : t \in NonIncreasing(n - 1, v)} : v \in 2 .. maxV}

NumSuits == 4

ValueTuples(maxV) ==
    {t \in NonIncreasing(HandSize, maxV) :
        \A i \in 1 .. HandSize : ValueCount(t, t[i]) <= NumSuits}

\* the rank whose getValue is v
RankOfValue(v) == RanksUTG[v - 1]

ShiftedHand(t, shift) ==
    [i \in 1 .. HandSize |->
        LET k == Cardinality({j \in 1 .. (i - 1) : t[j] = t[i]})
        IN  MakeCard(RankOfValue(t[i]),
                     SuitList[((IF i = shift THEN k + 1 ELSE k) % NumSuits) + 1])]

HandInputs(maxV) ==
    {h \in {ShiftedHand(t, shift) : t \in ValueTuples(maxV), shift \in 0 .. NumSuitShifts} :
        DistinctCards(h)}

\* the highest card value: the ace
MaxValue == 14

(***************************************************************************)
(* Specification SpecClassify: a dealt hand is classified by               *)
(* evaluateUTGHand and then by evaluateHandForPosition at each of the six  *)
(* positions, under the built-in strategy set.                             *)
(***************************************************************************)
InitClassify ==
    /\ pc = "dealt"
    /\ IdleCompare
    /\ IdleDeal
    /\ IdleInterpret
    /\ positionStrategies = BuiltInStrategies
    /\ currentHand \in HandInputs(MaxValue)
    /\ evaluation = None
    /\ evaluations = None
    /\ resolved = None
    /\ gameState = None

\* part_000 dealNewHand: const evaluation = evaluateUTGHand(newHand)
EvaluateUTG ==
    /\ pc = "dealt"
    /\ evaluation' = evaluateUTGHand(currentHand)
    /\ pc' = "utg"
    /\ UNCHANGED <<interpretVars, cmpVars, dealVars, positionStrategies, currentHand, evaluations, resolved, gameState>>

\* page.tsx: evaluateHandForPosition(newHand, position), for each position
EvaluatePositions ==
    /\ pc = "utg"
    /\ evaluations' = [p \in LearningPositions |->
                         evaluateHandForPosition(positionStrategies, currentHand, p)]
    /\ pc' = "classified"
    /\ UNCHANGED <<interpretVars, cmpVars, dealVars, positionStrategies, currentHand, evaluation, resolved, gameState>>

NextClassify == EvaluateUTG \/ EvaluatePositions

SpecClassify == InitClassify /\ [][NextClassify]_vars

(***************************************************************************)
(* Specification SpecInterpret: interpretBetterHand applied to an includes *)
(* entry and a candidate.  The entries are those of the built-in ranges;   *)
(* the candidates are the ascending arrays of three to five values that    *)
(* evaluateHandForPosition hands in (values, fourBestCards, best3With2),   *)
(* repeated values included.                                               *)
(***************************************************************************)
MaxTestValue == 7

InterpretPatterns ==
    { <<"8", "s", "+">>,
      <<"8", "6", "5", "4", "+">>,
      <<"5", "4", "2", "+">>, <<"7", "5", "2", "+">>, <<"8", "4", "2", "+">>,
      <<"6", "3", "2", "2", "+">>, <<"7", "6", "2", "2", "+">>,
      <<"8", "7", "5", "3">>,
      <<"a", "l", "l">> }

TestHands ==
    UNION {{SortAsc(t) : t \in NonIncreasing(n, MaxTestValue)} : n \in 3 .. HandSize}

\* the call compareLowballHands(testHand, benchmark) of lines 490 and 500:
\* whether it is made, and the value it returns.  The function has no throw
\* statement and neither indexing past the end nor subtracting undefined
\* raises an error, so a call made always returns: a number or NaN.
ComparisonMade(pattern, testHand) ==
    IF ~MatchesPatThreshold(pattern)
       /\ (MatchesDigitsPlus(pattern, 4) \/ MatchesDigitsPlus(pattern, 3))
    THEN LET r == compareLowballHands(testHand, BenchmarkOf(pattern))
         IN  [called |-> TRUE, benchmark |-> BenchmarkOf(pattern),
              outcome |-> IF r.nan THEN "NaN" ELSE "number", val |-> r.val]
    ELSE [called |-> FALSE, benchmark |-> <<>>, outcome |-> "none", val |-> 0]

InitInterpret ==
    /\ pc = "interpret"
    /\ IdleCompare
    /\ IdleDeal
    /\ IdleClassify
    /\ patternIn \in InterpretPatterns
    /\ testHandIn \in TestHands
    /\ matched = None
    /\ compared = None

\* page.tsx 649, 689, 729: interpretBetterHand(pattern, candidate)
InterpretBetterHand ==
    /\ pc = "interpret"
    /\ matched' = interpretBetterHand(patternIn, testHandIn)
    /\ compared' = ComparisonMade(patternIn, testHandIn)
    /\ pc' = "interpreted"
    /\ UNCHANGED <<cmpVars, dealVars, classVars, patternIn, testHandIn>>

NextInterpret == InterpretBetterHand

SpecInterpret == InitInterpret /\ [][NextInterpret]_vars

(***************************************************************************)
(* The strategy store.  The import button hands whatever JSON array the    *)
(* user pastes to setPositionStrategies, unvalidated.  The payloads below  *)
(* are the built-in set with one strategy rewritten.                       *)
(***************************************************************************)
WithParent(strats, position, parent) ==
    [i \in DOMAIN strats |->
        IF strats[i].position = position
        THEN [strats[i] EXCEPT !.inheritsFrom = parent]
        ELSE strats[i]]

WithOwnEntry(strats, position, entry) ==
    [i \in DOMAIN strats |->
        IF strats[i].position = position
        THEN [strats[i] EXCEPT ![entry[1]][entry[2]] = @ \o <<entry[3]>>]
        ELSE strats[i]]

WithLegacyRanges(strats, position) ==
    [i \in DOMAIN strats |->
        IF strats[i].position = position
        THEN [c \in DOMAIN strats[i] |->
                 IF c \in RangeCategories
                 THEN LegacyRange(strats[i][c].includes)
                 ELSE strats[i][c]]
        ELSE strats[i]]

\* the built-in set with the UTG excludes list emptied
NoTrapStrategies ==
    [BuiltInStrategies EXCEPT ![1].draw1Hands.excludes = <<>>]

\* the entries a pasted strategy carries beyond the built-in ones
OwnEntries ==
    { <<"draw1Hands", "excludes", <<"7", "6", "5", "4">> >>,
      <<"draw1Hands", "excludes", <<"4", "5", "6", "7">> >>,
      <<"draw1Hands", "excludes", <<"4", "5", "6", "8">> >>,
      <<"draw2Hands", "excludes", <<"2", "3", "4">> >>,
      <<"patHands", "includes", <<"9", "s", "+">> >>,
      <<"draw1Hands", "includes", <<"9", "8", "7", "6", "+">> >>,
      <<"draw2Hands", "includes", <<"9", "8", "3", "+">> >> }

\* payloads whose inheritsFrom links all name a stored position and end
AcyclicPayloads ==
    {BuiltInStrategies, NoTrapStrategies}
    \cup {WithOwnEntry(b, q, e) : b \in {BuiltInStrategies, NoTrapStrategies},
                                  q \in LearningPositions, e \in OwnEntries}
    \cup {WithParent(BuiltInStrategies, "CO", "UTG"),
          WithParent(NoTrapStrategies, "BB", None),
          WithLegacyRanges(BuiltInStrategies, "UTG"),
          WithLegacyRanges(BuiltInStrategies, "CO")}

\* payloads with a position that inherits from itself or from a descendant
CyclicPayloads ==
    {WithParent(BuiltInStrategies, "UTG", "UTG"),
     WithParent(BuiltInStrategies, "UTG", "BB"),
     WithParent(BuiltInStrategies, "HJ", "CO"),
     WithParent(NoTrapStrategies, "BTN", "SB")}

\* the built-in set, the BTN strategy moved to the front
BTNFirstStrategies ==
    <<BuiltInStrategies[4], BuiltInStrategies[1], BuiltInStrategies[2],
      BuiltInStrategies[3], BuiltInStrategies[5], BuiltInStrategies[6]>>

\* payloads with an inheritsFrom that names no stored position
UnknownParentPayloads ==
    {WithParent(BuiltInStrategies, "HJ", "MP"),
     WithParent(BuiltInStrategies, "UTG", "EP"),
     WithParent(BTNFirstStrategies, "HJ", "MP"),
     WithParent(WithLegacyRanges(BuiltInStrategies, "UTG"), "CO", "MP")}

ImportPayloads == AcyclicPayloads \cup CyclicPayloads \cup UnknownParentPayloads

StoredPositions == {positionStrategies[i].position : i \in DOMAIN positionStrategies}

IdleManage ==
    /\ pc = "manage"
    /\ IdleCompare
    /\ IdleDeal
    /\ IdleInterpret
    /\ positionStrategies = BuiltInStrategies
    /\ currentHand = <<>>
    /\ evaluation = None
    /\ evaluations = None
    /\ resolved = None
    /\ gameState = None

\* the import button: setPositionStrategies(parsed)
ImportStrategies(parsed) ==
    /\ pc = "manage"
    /\ positionStrategies' = parsed
    /\ UNCHANGED <<pc, interpretVars, cmpVars, dealVars, currentHand, evaluation, evaluations, resolved, gameState>>

\* the strategy list: getFullStrategy(strategy.position) for a stored strategy
ResolveStrategy(position) ==
    /\ pc \in {"manage", "resolved"}
    /\ resolved' = [position |-> position,
                    result |-> getFullStrategy(positionStrategies, position)]
    /\ pc' = "resolved"
    /\ UNCHANGED <<interpretVars, cmpVars, dealVars, positionStrategies, currentHand, evaluation, evaluations, gameState>>

NextResolve ==
    \/ \E position \in StoredPositions : ResolveStrategy(position)
    \/ \E parsed \in ImportPayloads : ImportStrategies(parsed)

SpecResolve == IdleManage /\ [][NextResolve]_vars

\* generateRandomHand of page.tsx deals 2 .. T
MaxPageValue == 10

\* back in the learning phase: a hand is dealt and classified at each position
EvaluateStored(newHand) ==
    /\ pc = "manage"
    /\ currentHand' = newHand
    /\ evaluations' = [p \in LearningPositions |->
                         evaluateHandForPosition(positionStrategies, newHand, p)]
    /\ pc' = "classified"
    /\ UNCHANGED <<interpretVars, cmpVars, dealVars, positionStrategies, evaluation, resolved, gameState>>

NextInherit ==
    \/ \E newHand \in HandInputs(MaxPageValue) : EvaluateStored(newHand)
    \/ \E parsed \in ImportPayloads : ImportStrategies(parsed)

SpecInherit == IdleManage /\ [][NextInherit]_vars

(***************************************************************************)
(* Specification SpecUnread: the stored set is replaced by a payload that  *)
(* differs from the built-in set, or from the built-in set with CO         *)
(* inheriting from a position that is not stored, in draw3Hands,           *)
(* draw4Hands, patHands.excludes or draw2Hands.excludes only; a hand is    *)
(* then classified at each position.  A draw3Hands or draw4Hands range may *)
(* come in the older string[] form that convertLegacyHandRange accepts.    *)
(***************************************************************************)
WithLegacyCategory(strats, position, category) ==
    [i \in DOMAIN strats |->
        IF strats[i].position = position
        THEN [strats[i] EXCEPT ![category] = LegacyRange(@.includes)]
        ELSE strats[i]]

UnreadEntries ==
    { <<"draw3Hands", "includes", <<"2", "2">> >>,
      <<"draw4Hands", "excludes", <<"2">> >>,
      <<"patHands", "excludes", <<"8", "7", "6", "5", "3">> >>,
      <<"draw2Hands", "excludes", <<"2", "3", "4">> >> }

UnreadBases == {BuiltInStrategies, WithParent(BuiltInStrategies, "CO", "MP")}

UnreadPayloads ==
    UnreadBases
    \cup {WithOwnEntry(b, q, e) : b \in UnreadBases, q \in {"UTG", "HJ"}, e \in UnreadEntries}
    \cup {WithLegacyCategory(b, "UTG", c) : b \in UnreadBases, c \in {"draw3Hands", "draw4Hands"}}

NextUnread ==
    \/ \E newHand \in HandInputs(MaxPageValue) : EvaluateStored(newHand)
    \/ \E parsed \in UnreadPayloads : ImportStrategies(parsed)

SpecUnread == IdleManage /\ [][NextUnread]_vars

(***************************************************************************)
(* What the claims say of a hand, read off the cards themselves.           *)
(***************************************************************************)
CardValues == {currentHand[i].value : i \in 1 .. Len(currentHand)}
CardSuits == {currentHand[i].suit : i \in 1 .. Len(currentHand)}

\* the four lowest distinct values are exactly 4, 5, 6, 7
FourLowestAre4567 ==
    /\ {4, 5, 6, 7} \subseteq CardValues
    /\ \A v \in CardValues : v >= 4

\* five distinct values, two suits or more, no five in a row, none above 8
IsPatEightOrBetter ==
    /\ Cardinality(CardValues) = 5
    /\ Cardinality(CardSuits) > 1
    /\ \E v \in CardValues : \A w \in CardValues : w < v + 4
    /\ ~(\E v \in CardValues : CardValues = v .. (v + 4))
    /\ \A v \in CardValues : v <= 8

IsPatCategory(category) == Len(category) > 0 /\ category[1] = "Pat "

UTGClassified == pc \in {"utg", "classified"}

(***************************************************************************)
(* C1                                                                      *)
(***************************************************************************)
\* C1: a hand of five distinct cards whose four lowest distinct values are
\* exactly 4, 5, 6, 7 is classified fold and not playable by evaluateUTGHand,
\* and by evaluateHandForPosition at each of the six positions under the
\* built-in strategy set, whatever the fifth card and the suits.
C1_TrapHandFolds ==
    FourLowestAre4567 =>
        /\ UTGClassified =>
              evaluation.correctAction = "fold" /\ ~evaluation.isPlayable
        /\ pc = "classified" =>
              \A p \in LearningPositions :
                  /\ evaluations[p].status = "ok"
                  /\ evaluations[p].correctAction = "fold"
                  /\ ~evaluations[p].isPlayable

\* A-7-6-5-4 of one suit has been classified by both classifiers
C1_Witness ==
    /\ pc = "classified"
    /\ CardValues = {14, 7, 6, 5, 4}
    /\ Cardinality(CardSuits) = 1
    /\ evaluation.correctAction = "fold"
    /\ evaluations["BTN"].correctAction = "fold"

(***************************************************************************)
(* C4                                                                      *)
(***************************************************************************)
\* C4: a hand whose values are exactly 2, 3, 4, 5 and 14 never gets a category
\* 'Pat ...-high', from evaluateUTGHand or from evaluateHandForPosition at any
\* position, whatever its suits.
C4_WheelNotPat ==
    CardValues = {2, 3, 4, 5, 14} =>
        /\ UTGClassified => ~IsPatCategory(evaluation.category)
        /\ pc = "classified" =>
              \A p \in LearningPositions : ~IsPatCategory(evaluations[p].category)

\* a wheel of mixed suits has been classified: a draw to 2-3-4-5, not a pat hand
C4_Witness ==
    /\ pc = "classified"
    /\ CardValues = {2, 3, 4, 5, 14}
    /\ Cardinality(CardSuits) > 1
    /\ evaluation.category = <<"Draw 1 (", "2", "3", "4", "5", ")">>
    /\ evaluations["UTG"].category = <<"Draw 1 (", "2", "3", "4", "5", ")">>

(***************************************************************************)
(* C9                                                                      *)
(***************************************************************************)
PatCategoryOfHand ==
    <<"Pat ">> \o ToChars(CHOOSE v \in CardValues : \A w \in CardValues : w <= v)
               \o <<"-high">>

\* C9: at UTG, a hand of five distinct values, not all of one suit, without
\* five consecutive values and with no value above 8 is playable, raise, with
\* category 'Pat <highest>-high', in both classifiers.
C9_PatAtUTG ==
    IsPatEightOrBetter =>
        /\ UTGClassified =>
              /\ evaluation.isPlayable
              /\ evaluation.correctAction = "raise"
              /\ evaluation.category = PatCategoryOfHand
        /\ pc = "classified" =>
              /\ evaluations["UTG"].isPlayable
              /\ evaluations["UTG"].correctAction = "raise"
              /\ evaluations["UTG"].category = PatCategoryOfHand

\* 8-6-5-3-2 has been classified 'Pat 8-high' by both classifiers
C9_Witness ==
    /\ pc = "classified"
    /\ CardValues = {8, 6, 5, 3, 2}
    /\ IsPatEightOrBetter
    /\ evaluation.category = <<"Pat ", "8", "-high">>
    /\ evaluations["UTG"].category = <<"Pat ", "8", "-high">>

(***************************************************************************)
(* C10                                                                     *)
(***************************************************************************)
NamesTrap(category) ==
    category \in {<<"x7654 Trap Hand">>, <<"Draw 1 Excluded (7654)">>}

StrategyAt(position) == positionStrategies[FindStrategy(positionStrategies, position)]

ParentOf(position) ==
    IF position \in StoredPositions THEN StrategyAt(position).inheritsFrom ELSE None

\* the positions met from a position by n inheritsFrom links or fewer
RECURSIVE AncestorsWithin(_, _)
AncestorsWithin(position, n) ==
    IF n = 0 \/ ParentOf(position) = None THEN {}
    ELSE {ParentOf(position)} \cup AncestorsWithin(ParentOf(position), n - 1)

Ancestors(position) == AncestorsWithin(position, Len(positionStrategies) + 1)

\* the links from the position lead round a cycle
LeadsIntoCycle(position) ==
    \E q \in Ancestors(position) \cup {position} :
        q \in StoredPositions /\ q \in Ancestors(q)

\* every link from the position names a stored position, and the links end
ChainIsSound(position) ==
    /\ position \in StoredPositions
    /\ Ancestors(position) \subseteq StoredPositions
    /\ ~LeadsIntoCycle(position)

\* the position's own list as stored: the array itself in the legacy form
OwnList(position, category, field) ==
    LET own == StrategyAt(position)[category]
    IN  IF own.fmt = "range" THEN own[field]
        ELSE IF own.fmt = "list" /\ field = "includes" THEN own.includes
        ELSE <<>>

\* the lists of the chain laid end to end, the root's first
RECURSIVE ChainList(_, _, _)
ChainList(position, category, field) ==
    IF ParentOf(position) = None THEN OwnList(position, category, field)
    ELSE ChainList(ParentOf(position), category, field)
             \o OwnList(position, category, field)

\* the four lowest distinct values of the hand, written low to high
DrawAscending ==
    CHOOSE d \in [1 .. 4 -> CardValues] :
        /\ \A i \in 1 .. 3 : d[i] < d[i + 1]
        /\ \A v \in CardValues : v >= d[4] \/ \E i \in 1 .. 4 : d[i] = v

\* the own excludes of the position name the draw of the hand, in either order
OwnExcludesNameDraw(position) ==
    /\ Cardinality(CardValues) >= 4
    /\ LET low == Join(DrawAscending)
           high == Join([i \in 1 .. 4 |-> DrawAscending[5 - i]])
       IN  \E c \in RangeCategories :
               \/ ArrIncludes(OwnList(position, c, "excludes"), low)
               \/ ArrIncludes(OwnList(position, c, "excludes"), high)

(***************************************************************************)
(* C2                                                                      *)
(***************************************************************************)
\* C2: in an acyclic strategy set, a hand that evaluateHandForPosition
\* classifies as playable at P is classified as playable at every position C
\* whose inheritsFrom is P, unless the own excludes of C name the hand's draw.
C2_InheritedPlayable ==
    pc = "classified" =>
        \A C \in StoredPositions \cap LearningPositions :
            LET P == ParentOf(C)
            IN  (/\ P \in LearningPositions
                 /\ evaluations[P].status = "ok"
                 /\ evaluations[P].isPlayable
                 /\ ~(evaluations[C].status = "ok" /\ evaluations[C].isPlayable)
                 /\ ChainIsSound(C))
                => OwnExcludesNameDraw(C)

\* 7-6-5-4-4 under a pasted set in which UTG excludes nothing and CO excludes
\* 4567: playable at UTG and at its child HJ, folded at CO
C2_Witness ==
    /\ pc = "classified"
    /\ positionStrategies =
           WithOwnEntry(NoTrapStrategies, "CO",
                        <<"draw1Hands", "excludes", <<"4", "5", "6", "7">> >>)
    /\ CardValues = {7, 6, 5, 4}
    /\ evaluations["UTG"].isPlayable
    /\ evaluations["HJ"].isPlayable
    /\ ~evaluations["CO"].isPlayable
    /\ OwnExcludesNameDraw("CO")

(***************************************************************************)
(* C6                                                                      *)
(***************************************************************************)
\* C6: for a position whose chain of inheritsFrom links is sound,
\* getFullStrategy returns, in each of the five categories, includes and
\* excludes equal to the resolved parent's list followed by the position's own
\* list in declared order (the own list alone without inheritsFrom); the
\* result is fixed by the stored strategies, so a second call on unchanged
\* data returns the same lists in the same order.
C6_ParentThenOwn ==
    (pc = "resolved" /\ ChainIsSound(resolved.position)) =>
        /\ resolved.result.status = "ok"
        /\ resolved.result.strategy.position = resolved.position
        /\ \A c \in RangeCategories :
              /\ resolved.result.strategy[c].fmt = "range"
              /\ resolved.result.strategy[c].includes =
                     ChainList(resolved.position, c, "includes")
              /\ resolved.result.strategy[c].excludes =
                     ChainList(resolved.position, c, "excludes")

\* BTN resolved under a pasted set in which CO carries 9s+ after its own two
\* pat hands: UTG's entry, CO's three, then BTN's four
C6_Witness ==
    /\ pc = "resolved"
    /\ resolved.position = "BTN"
    /\ positionStrategies =
           WithOwnEntry(BuiltInStrategies, "CO", <<"patHands", "includes", <<"9", "s", "+">> >>)
    /\ resolved.result.strategy.patHands.includes =
           << <<"8", "s", "+">>,
              <<"9", "6", "5", "4", "3">>, <<"9", "7", "6", "5", "4">>, <<"9", "s", "+">>,
              <<"T", "9", "8", "7", "5">>, <<"T", "8", "7", "6", "5">>,
              <<"T", "7", "6", "5", "4">>, <<"T", "6", "5", "4", "3">> >>
    /\ resolved.result.strategy.draw1Hands.excludes = << <<"7", "6", "5", "4">> >>

(***************************************************************************)
(* C7                                                                      *)
(***************************************************************************)
\* C7: when the stored strategies hold an inheritance cycle, resolving a
\* position on the cycle, or leading into it, ends with a resolution failure
\* after following no more parent links than there are stored positions.
C7_CycleFailsWithinPositions ==
    (pc = "resolved" /\ LeadsIntoCycle(resolved.position)) =>
        /\ resolved.result.status # "ok"
        /\ resolved.result.parentSteps <= Len(positionStrategies)

(***************************************************************************)
(* C8                                                                      *)
(***************************************************************************)
\* C8: when the inheritsFrom of a position names no stored position,
\* resolving the position is a resolution failure, never a range built from
\* another position's strategy.
C8_UnknownParentFails ==
    (/\ pc = "resolved"
     /\ ParentOf(resolved.position) # None
     /\ ParentOf(resolved.position) \notin StoredPositions)
    => resolved.result.status # "ok"

(***************************************************************************)
(* C11                                                                     *)
(***************************************************************************)
\* the k-th highest of a set of values
NthHighest(S, k) == CHOOSE v \in S : Cardinality({w \in S : w > v}) = k - 1

\* the four best cards: the four lowest distinct values of the hand
FourBestSet == {v \in CardValues : Cardinality({w \in CardValues : w < v}) < 4}

\* the four best cards, read from the highest down, are worse than 8-6-5-4
FourBestWorseThan8654 ==
    /\ Cardinality(CardValues) >= 4
    /\ LET b == <<8, 6, 5, 4>>
       IN  \E i \in 1 .. 4 :
               /\ NthHighest(FourBestSet, i) > b[i]
               /\ \A j \in 1 .. (i - 1) : NthHighest(FourBestSet, j) = b[j]

IsDrawOneCategory(category) == Len(category) > 0 /\ category[1] = "Draw 1 ("

\* C11: at UTG, in both classifiers, a hand without a 2 that is no pat hand of
\* 8-high or better and whose four best cards are worse than 8-6-5-4 is
\* classified fold; a hand without a 2 is playable through the pat rule or the
\* draw-1 rule only.
C11_NoTwoFolds ==
    2 \notin CardValues =>
        /\ (UTGClassified /\ ~IsPatEightOrBetter /\ FourBestWorseThan8654) =>
              evaluation.correctAction = "fold" /\ ~evaluation.isPlayable
        /\ (pc = "classified" /\ ~IsPatEightOrBetter /\ FourBestWorseThan8654) =>
              /\ evaluations["UTG"].correctAction = "fold"
              /\ ~evaluations["UTG"].isPlayable
        /\ (UTGClassified /\ evaluation.isPlayable) =>
              IsPatCategory(evaluation.category) \/ IsDrawOneCategory(evaluation.category)
        /\ (pc = "classified" /\ evaluations["UTG"].isPlayable) =>
              \/ IsPatCategory(evaluations["UTG"].category)
              \/ IsDrawOneCategory(evaluations["UTG"].category)

\* A-9-7-6-5 of mixed suits has been folded at UTG by both classifiers
C11_Witness ==
    /\ pc = "classified"
    /\ CardValues = {14, 9, 7, 6, 5}
    /\ Cardinality(CardSuits) > 1
    /\ FourBestSet = {9, 7, 6, 5}
    /\ FourBestWorseThan8654
    /\ evaluation.correctAction = "fold"
    /\ evaluations["UTG"].correctAction = "fold"

(***************************************************************************)
(* C12                                                                     *)
(***************************************************************************)
\* the number of cards of the hand with value v
CardsOfValue(v) == Cardinality({i \in 1 .. Len(currentHand) : currentHand[i].value = v})

\* C12: evaluateUTGHand classifies 9-6-3-2-2 playable, raise, with the
\* category that refers to the blocker pair of 2s.
C12_BlockerCategory ==
    (UTGClassified /\ CardValues = {9, 6, 3, 2} /\ CardsOfValue(2) = 2) =>
        /\ evaluation.isPlayable
        /\ evaluation.correctAction = "raise"
        /\ evaluation.category = <<"Draw 2 (Special Blocker)">>

(***************************************************************************)
(* Specification SpecDrill: the learning and drill screens of part_000.    *)
(* An event handler reads the gameState of the last render and queues      *)
(* updaters that React applies in order before the next event; each        *)
(* operator below takes the rendered state and returns the state after     *)
(* the queued updaters.  pc names the handler that ran last.               *)
(***************************************************************************)
\* how many of the hands below generateRandomHand may return
NumDrillHands == 3
\* no mistake is recorded beyond this many
MaxMistakes == 2
\* no action is scored in learning phase beyond this many
MaxHandsPlayed == 3

DrillTuples ==
    << <<8, 6, 5, 3, 2>>, <<13, 12, 9, 7, 4>>, <<9, 7, 6, 5, 4>>,
       <<9, 6, 3, 2, 2>>, <<14, 9, 7, 6, 5>> >>

DealtHands ==
    {ShiftedHand(DrillTuples[i], 1) :
        i \in 1 .. (IF NumDrillHands < Len(DrillTuples) THEN NumDrillHands
                    ELSE Len(DrillTuples))}

\* the enabled buttons: Call is disabled
PlayerActions == {"raise", "fold"}

\* useState<GameState>({...})
InitialGameState ==
    [phase |-> "learning", currentHand |-> <<>>, isPlayable |-> FALSE,
     showAnswer |-> FALSE, score |-> [correct |-> 0, total |-> 0],
     playerAction |-> None, correctAction |-> "fold", handCategory |-> <<>>,
     mistakes |-> <<>>,
     drillMode |-> [isActive |-> FALSE, mistakePool |-> <<>>,
                    currentMistakeIndex |-> 0,
                    reviewStats |-> [totalReviewed |-> 0, correctOnReview |-> 0]]]

\* dealNewHand: the updater applied to prev
dealNewHand(prev, newHand) ==
    LET ev == evaluateUTGHand(newHand)
    IN  [prev EXCEPT !.currentHand = newHand,
                     !.isPlayable = ev.isPlayable,
                     !.correctAction = ev.correctAction,
                     !.handCategory = ev.category,
                     !.showAnswer = FALSE,
                     !.playerAction = None]

\* a faulty variant: a drill answer is scored as a learning answer as well
handlePlayerActionScoringDrill(gs, action) ==
    LET isCorrect == action = gs.correctAction
        mistakeRecord == [hand |-> gs.currentHand, userAction |-> action,
                          correctAction |-> gs.correctAction,
                          category |-> gs.handCategory]
        scored == [correct |-> gs.score.correct + (IF isCorrect THEN 1 ELSE 0),
                   total |-> gs.score.total + 1]
    IN  IF ~isCorrect /\ gs.phase = "learning"
        THEN [gs EXCEPT !.playerAction = action, !.showAnswer = TRUE,
                        !.score = scored,
                        !.mistakes = Append(@, mistakeRecord)]
        ELSE IF gs.phase = "drill"
        THEN [gs EXCEPT !.playerAction = action, !.showAnswer = TRUE,
                        !.score = scored,
                        !.drillMode.reviewStats =
                            [totalReviewed |-> @.totalReviewed + 1,
                             correctOnReview |->
                                 @.correctOnReview + (IF isCorrect THEN 1 ELSE 0)]]
        ELSE [gs EXCEPT !.playerAction = action, !.showAnswer = TRUE,
                        !.score = scored]

\* handlePlayerAction(action)
handlePlayerAction(gs, action) ==
    LET isCorrect == action = gs.correctAction
        mistakeRecord == [hand |-> gs.currentHand, userAction |-> action,
                          correctAction |-> gs.correctAction,
                          category |-> gs.handCategory]
        scored == [correct |-> gs.score.correct + (IF isCorrect THEN 1 ELSE 0),
                   total |-> gs.score.total + 1]
    IN  IF ~isCorrect /\ gs.phase = "learning"
        THEN [gs EXCEPT !.playerAction = action, !.showAnswer = TRUE,
                        !.score = scored,
                        !.mistakes = Append(@, mistakeRecord)]
        ELSE IF gs.phase = "drill"
        THEN [gs EXCEPT !.playerAction = action, !.showAnswer = TRUE,
                        !.drillMode.reviewStats =
                            [totalReviewed |-> @.totalReviewed + 1,
                             correctOnReview |->
                                 @.correctOnReview + (IF isCorrect THEN 1 ELSE 0)]]
        ELSE [gs EXCEPT !.playerAction = action, !.showAnswer = TRUE,
                        !.score = scored]

\* loadDrillHand(index): gs is the rendered state, prev the state the updater meets
loadDrillHand(gs, prev, index) ==
    IF index + 1 > Len(gs.mistakes) THEN prev
    ELSE LET mistake == gs.mistakes[index + 1]
             ev == evaluateUTGHand(mistake.hand)
         IN  [prev EXCEPT !.currentHand = mistake.hand,
                          !.isPlayable = ev.isPlayable,
                          !.correctAction = ev.correctAction,
                          !.handCategory = ev.category,
                          !.showAnswer = FALSE,
                          !.playerAction = None,
                          !.drillMode.currentMistakeIndex = index]

\* a faulty variant: the guard never holds
NoMistakesNever(gs) == FALSE

\* gameState.mistakes.length === 0
NoMistakes(gs) == Len(gs.mistakes) = 0

\* a faulty variant: the review statistics are carried over
StartedDrillKeepingStats(prev) ==
    [prev EXCEPT !.phase = "drill",
                 !.drillMode = [isActive |-> TRUE, mistakePool |-> prev.mistakes,
                                currentMistakeIndex |-> 0,
                                reviewStats |-> prev.drillMode.reviewStats]]

\* startDrillMode: the updater applied to prev
StartedDrill(prev) ==
    [prev EXCEPT !.phase = "drill",
                 !.drillMode = [isActive |-> TRUE, mistakePool |-> prev.mistakes,
                                currentMistakeIndex |-> 0,
                                reviewStats |-> [totalReviewed |-> 0,
                                                 correctOnReview |-> 0]]]

\* startDrillMode()
startDrillMode(gs) ==
    IF NoMistakes(gs) THEN gs
    ELSE loadDrillHand(gs, StartedDrill(gs), 0)

\* a faulty variant: the drill is left active
BackToLearningStillActive(prev) == [prev EXCEPT !.phase = "learning"]

\* the return to learning phase queued by nextDrillHand and exitDrillMode
BackToLearning(prev) ==
    [prev EXCEPT !.phase = "learning", !.drillMode.isActive = FALSE]

\* a faulty variant: the end of the pool is tested one index late
nextDrillHandOneLate(gs, newHand) ==
    LET nextIndex == gs.drillMode.currentMistakeIndex + 1
    IN  IF nextIndex <= Len(gs.mistakes)
        THEN loadDrillHand(gs, gs, nextIndex)
        ELSE dealNewHand(BackToLearning(gs), newHand)

\* a faulty variant: after the last mistake the drill starts over
nextDrillHandWrapping(gs, newHand) ==
    LET nextIndex == gs.drillMode.currentMistakeIndex + 1
    IN  IF nextIndex < Len(gs.mistakes)
        THEN loadDrillHand(gs, gs, nextIndex)
        ELSE loadDrillHand(gs, gs, 0)

\* nextDrillHand()
nextDrillHand(gs, newHand) ==
    LET nextIndex == gs.drillMode.currentMistakeIndex + 1
    IN  IF nextIndex < Len(gs.mistakes)
        THEN loadDrillHand(gs, gs, nextIndex)
        ELSE dealNewHand(BackToLearning(gs), newHand)

\* exitDrillMode()
exitDrillMode(gs, newHand) == dealNewHand(BackToLearning(gs), newHand)

\* clearMistakes()
clearMistakes(gs) == [gs EXCEPT !.mistakes = <<>>]

\* nextHand()
nextHand(gs, newHand) ==
    IF gs.phase = "drill" THEN nextDrillHand(gs, newHand)
    ELSE dealNewHand(gs, newHand)

drillIdle == <<interpretVars, cmpVars, dealVars, positionStrategies, currentHand, evaluation,
               evaluations, resolved>>

InitDrill ==
    /\ pc = "init"
    /\ IdleCompare
    /\ IdleDeal
    /\ IdleInterpret
    /\ positionStrategies = <<>>
    /\ currentHand = <<>>
    /\ evaluation = None
    /\ evaluations = None
    /\ resolved = None
    /\ gameState = InitialGameState

\* useEffect(() => { dealNewHand() }, [])
Mount(newHand) ==
    /\ pc = "init"
    /\ gameState' = dealNewHand(gameState, newHand)
    /\ pc' = "dealNewHand"
    /\ UNCHANGED drillIdle

\* the Raise and Fold buttons, shown while no answer is shown
HandlePlayerAction(action) ==
    /\ pc # "init"
    /\ ~gameState.showAnswer
    /\ gameState.phase = "learning" => gameState.score.total < MaxHandsPlayed
    /\ (gameState.phase = "learning" /\ action # gameState.correctAction)
           => Len(gameState.mistakes) < MaxMistakes
    /\ gameState' = handlePlayerAction(gameState, action)
    /\ pc' = "handlePlayerAction"
    /\ UNCHANGED drillIdle

\* the Next button, shown once the answer is shown
NextHand(newHand) ==
    /\ gameState.showAnswer
    /\ gameState' = nextHand(gameState, newHand)
    /\ pc' = "nextHand"
    /\ UNCHANGED drillIdle

\* startDrillMode called in learning phase
StartDrillMode ==
    /\ pc # "init"
    /\ gameState.phase = "learning"
    /\ gameState' = startDrillMode(gameState)
    /\ pc' = "startDrillMode"
    /\ UNCHANGED drillIdle

\* the Exit Drill Mode button, shown in drill phase
ExitDrillMode(newHand) ==
    /\ gameState.phase = "drill"
    /\ gameState' = exitDrillMode(gameState, newHand)
    /\ pc' = "exitDrillMode"
    /\ UNCHANGED drillIdle

\* the Clear button, shown in learning phase while a mistake is recorded
ClearMistakes ==
    /\ gameState.phase = "learning"
    /\ Len(gameState.mistakes) > 0
    /\ gameState' = clearMistakes(gameState)
    /\ pc' = "clearMistakes"
    /\ UNCHANGED drillIdle

NextDrill ==
    \/ \E newHand \in DealtHands : Mount(newHand)
    \/ \E action \in PlayerActions : HandlePlayerAction(action)
    \/ \E newHand \in DealtHands : NextHand(newHand)
    \/ StartDrillMode
    \/ \E newHand \in DealtHands : ExitDrillMode(newHand)
    \/ ClearMistakes

SpecDrill == InitDrill /\ [][NextDrill]_vars

\* SpecDrill with a user who keeps answering and keeps pressing Next: weak
\* fairness of the Raise/Fold buttons and of the Next button.  The Next
\* button is rendered exactly while gameState.showAnswer holds and pressing
\* it always clears showAnswer, so its weak fairness is written with that
\* condition in place of ENABLED <<NextHand>>_vars.
SpecDrillFair ==
    /\ SpecDrill
    /\ WF_vars(\E action \in PlayerActions : HandlePlayerAction(action))
    /\ \/ []<>(~gameState.showAnswer)
       \/ []<><<\E newHand \in DealtHands : NextHand(newHand)>>_vars

(***************************************************************************)
(* Specification SpecLearning: the learning screen of both variants.  The  *)
(* part_000 variant is SpecDrill; the page.tsx variant starts from         *)
(* InitPage, deals for UTG or HJ under the built-in strategy set, and      *)
(* has no drill.  positionStrategies is empty in the part_000 variant,     *)
(* which has no strategy store.                                            *)
(***************************************************************************)
\* the hands above that page.tsx's generateRandomHand can deal (2 .. T)
PageDealtHands ==
    {ShiftedHand(DrillTuples[i], 1) :
        i \in {j \in DOMAIN DrillTuples : DrillTuples[j][1] <= MaxPageValue}}

\* page.tsx dealNewHand: availablePositions
AvailablePositions == {"UTG", "HJ"}

\* page.tsx useState<GameState>({...}); position is that of player "6"
InitialGameStatePage ==
    [phase |-> "learning", currentHand |-> <<>>, isPlayable |-> FALSE,
     showAnswer |-> FALSE, score |-> [correct |-> 0, total |-> 0],
     playerAction |-> None, correctAction |-> "fold", handCategory |-> <<>>,
     ruleUsed |-> <<>>, mistakes |-> <<>>, position |-> "UTG"]

\* page.tsx dealNewHand: the updaters applied to prev
dealNewHandPage(strats, prev, newHand, newPlayerPosition) ==
    LET ev == evaluateHandForPosition(strats, newHand, newPlayerPosition)
    IN  [prev EXCEPT !.currentHand = newHand,
                     !.isPlayable = ev.isPlayable,
                     !.correctAction = ev.correctAction,
                     !.handCategory = ev.category,
                     !.ruleUsed = ev.ruleUsed,
                     !.showAnswer = FALSE,
                     !.playerAction = None,
                     !.position = newPlayerPosition]

\* a faulty variant: the record is put before the existing mistakes
handlePlayerActionPagePrepend(gs, action) ==
    LET isCorrect == action = gs.correctAction
        mistakeRecord == [hand |-> gs.currentHand, userAction |-> action,
                          correctAction |-> gs.correctAction,
                          category |-> gs.handCategory,
                          position |-> gs.position]
    IN  IF ~isCorrect /\ gs.phase = "learning"
        THEN [gs EXCEPT !.playerAction = action, !.showAnswer = TRUE,
                        !.score = [correct |-> @.correct, total |-> @.total + 1],
                        !.mistakes = <<mistakeRecord>> \o @]
        ELSE [gs EXCEPT !.playerAction = action, !.showAnswer = TRUE,
                        !.score = [correct |-> @.correct + (IF isCorrect THEN 1 ELSE 0),
                                   total |-> @.total + 1]]

\* page.tsx handlePlayerAction(action)
handlePlayerActionPage(gs, action) ==
    LET isCorrect == action = gs.correctAction
        mistakeRecord == [hand |-> gs.currentHand, userAction |-> action,
                          correctAction |-> gs.correctAction,
                          category |-> gs.handCategory,
                          position |-> gs.position]
    IN  IF ~isCorrect /\ gs.phase = "learning"
        THEN [gs EXCEPT !.playerAction = action, !.showAnswer = TRUE,
                        !.score = [correct |-> @.correct, total |-> @.total + 1],
                        !.mistakes = Append(@, mistakeRecord)]
        ELSE [gs EXCEPT !.playerAction = action, !.showAnswer = TRUE,
                        !.score = [correct |-> @.correct + (IF isCorrect THEN 1 ELSE 0),
                                   total |-> @.total + 1]]

InitPage ==
    /\ pc = "pageInit"
    /\ IdleCompare
    /\ IdleDeal
    /\ IdleInterpret
    /\ positionStrategies = BuiltInStrategies
    /\ currentHand = <<>>
    /\ evaluation = None
    /\ evaluations = None
    /\ resolved = None
    /\ gameState = InitialGameStatePage

pageIdle == <<interpretVars, cmpVars, dealVars, positionStrategies, currentHand, evaluation,
              evaluations, resolved>>

\* page.tsx useEffect(() => { ...; dealNewHand() }, [])
MountPage(newHand, newPlayerPosition) ==
    /\ pc = "pageInit"
    /\ gameState' = dealNewHandPage(positionStrategies, gameState, newHand, newPlayerPosition)
    /\ pc' = "pageDealNewHand"
    /\ UNCHANGED pageIdle

\* page.tsx: the Raise and Fold buttons of the learning screen
HandlePlayerActionPage(action) ==
    /\ pc \notin {"pageInit"}
    /\ positionStrategies # <<>>
    /\ gameState.phase = "learning"
    /\ ~gameState.showAnswer
    /\ gameState.score.total < MaxHandsPlayed
    /\ action # gameState.correctAction => Len(gameState.mistakes) < MaxMistakes
    /\ gameState' = handlePlayerActionPage(gameState, action)
    /\ pc' = "pageHandlePlayerAction"
    /\ UNCHANGED pageIdle

\* page.tsx: const nextHand = () => dealNewHand(), the Next Hand button
NextHandPage(newHand, newPlayerPosition) ==
    /\ positionStrategies # <<>>
    /\ gameState.phase = "learning"
    /\ gameState.showAnswer
    /\ gameState' = dealNewHandPage(positionStrategies, gameState, newHand, newPlayerPosition)
    /\ pc' = "pageNextHand"
    /\ UNCHANGED pageIdle

\* page.tsx: the strategy management button of the learning screen
OpenStrategyManagement ==
    /\ pc \notin {"pageInit"}
    /\ positionStrategies # <<>>
    /\ gameState.phase = "learning"
    /\ gameState' = [gameState EXCEPT !.phase = "strategy-management"]
    /\ pc' = "strategyManagement"
    /\ UNCHANGED pageIdle

\* page.tsx: the Back to Learning button of the management screen
BackToLearningPage ==
    /\ positionStrategies # <<>>
    /\ gameState.phase = "strategy-management"
    /\ gameState' = [gameState EXCEPT !.phase = "learning"]
    /\ pc' = "backToLearning"
    /\ UNCHANGED pageIdle

NextPage ==
    \/ \E newHand \in PageDealtHands, p \in AvailablePositions : MountPage(newHand, p)
    \/ \E action \in PlayerActions : HandlePlayerActionPage(action)
    \/ \E newHand \in PageDealtHands, p \in AvailablePositions : NextHandPage(newHand, p)
    \/ OpenStrategyManagement
    \/ BackToLearningPage

NextLearning ==
    \/ positionStrategies = <<>> /\ NextDrill
    \/ NextPage

SpecLearning == (InitDrill \/ InitPage) /\ [][NextLearning]_vars

(***************************************************************************)
(* C13                                                                     *)
(***************************************************************************)
\* C13: startDrillMode called while no mistake is recorded changes nothing:
\* the phase stays learning, drillMode.isActive stays false, and the current
\* hand, the score and the drill state are as before; so drill mode is never
\* active with an empty pool.
C13_StartWithoutMistakes ==
    /\ [][(pc' = "startDrillMode" /\ Len(gameState.mistakes) = 0)
            => (/\ gameState' = gameState
                /\ gameState'.phase = "learning"
                /\ ~gameState'.drillMode.isActive)]_vars
    /\ [](pc # "init" =>
            (gameState.drillMode.isActive => Len(gameState.drillMode.mistakePool) > 0))

\* startDrillMode has just run with no mistake recorded, after a scored hand
C13_Witness ==
    /\ pc = "startDrillMode"
    /\ Len(gameState.mistakes) = 0
    /\ gameState.score.total > 0
    /\ gameState.phase = "learning"
    /\ ~gameState.drillMode.isActive

(***************************************************************************)
(* C14                                                                     *)
(***************************************************************************)
\* C14: startDrillMode called in learning phase with n >= 1 recorded mistakes
\* moves to phase drill with isActive true, mistakePool equal to the recorded
\* mistakes in recording order, currentMistakeIndex 0, reviewStats 0/0,
\* showAnswer false and currentHand equal to the hand of the first recorded
\* mistake, card for card.
C14_StartWithMistakes ==
    [][(/\ pc' = "startDrillMode"
        /\ gameState.phase = "learning"
        /\ Len(gameState.mistakes) >= 1)
       => (/\ gameState'.phase = "drill"
           /\ gameState'.drillMode.isActive
           /\ gameState'.drillMode.mistakePool = gameState.mistakes
           /\ gameState'.mistakes = gameState.mistakes
           /\ gameState'.drillMode.currentMistakeIndex = 0
           /\ gameState'.drillMode.reviewStats = [totalReviewed |-> 0, correctOnReview |-> 0]
           /\ ~gameState'.showAnswer
           /\ gameState'.currentHand = gameState.mistakes[1].hand)]_vars

\* a drill has started over two recorded mistakes of different hands: the
\* first recorded hand is on the table and nothing is reviewed yet
C14_Witness ==
    /\ pc = "startDrillMode"
    /\ gameState.phase = "drill"
    /\ Len(gameState.drillMode.mistakePool) = 2
    /\ gameState.drillMode.mistakePool[1].hand # gameState.drillMode.mistakePool[2].hand
    /\ gameState.currentHand = gameState.drillMode.mistakePool[1].hand
    /\ gameState.drillMode.reviewStats.totalReviewed = 0

(***************************************************************************)
(* C15                                                                     *)
(***************************************************************************)
\* C15: evaluateHandForPosition classifies a hand whose four lowest distinct
\* values are 4, 5, 6, 7 as fold under every stored strategy set, also one in
\* which no resolved draw-1 excludes list holds 7654.
C15_TrapFoldsUnderAnySet ==
    (pc = "classified" /\ FourLowestAre4567) =>
        \A p \in LearningPositions :
            evaluations[p].status = "ok" =>
                evaluations[p].correctAction = "fold" /\ ~evaluations[p].isPlayable

(***************************************************************************)
(* C16                                                                     *)
(***************************************************************************)
\* the draw-1 candidate of the hand, written low to high
Draw1Literal == Join(DrawAscending)

\* the draw-2 candidate of the hand: 2 and the two lowest other values
Draw2Literal ==
    LET others == CardValues \ {2}
        low == CHOOSE v \in others : \A w \in others : v <= w
        next == CHOOSE v \in others \ {low} : \A w \in others \ {low} : v <= w
    IN  Join(<<2, low, next>>)

\* C16: when the literal of the candidate draw, written low to high, is an
\* entry of the resolved excludes of the range being tested, the hand is
\* classified fold, whichever literal it is: in the draw-1 range for a hand
\* that is not pat, in the draw-2 range for a hand that holds a 2 and is
\* neither pat nor a draw 1.
C16_ExcludedLiteralFolds ==
    pc = "classified" =>
        \A p \in StoredPositions \cap LearningPositions :
            (ChainIsSound(p) /\ evaluations[p].status = "ok") =>
                /\ (/\ Cardinality(CardValues) >= 4
                    /\ ~IsPatCategory(evaluations[p].category)
                    /\ ArrIncludes(ChainList(p, "draw1Hands", "excludes"), Draw1Literal))
                   => evaluations[p].correctAction = "fold"
                /\ (/\ 2 \in CardValues
                    /\ Cardinality(CardValues) >= 3
                    /\ ~IsPatCategory(evaluations[p].category)
                    /\ ~IsDrawOneCategory(evaluations[p].category)
                    /\ ArrIncludes(ChainList(p, "draw2Hands", "excludes"), Draw2Literal))
                   => evaluations[p].correctAction = "fold"

(***************************************************************************)
(* C17                                                                     *)
(***************************************************************************)
\* the four best cards are four consecutive values
FourBestConsecutive ==
    /\ Cardinality(CardValues) >= 4
    /\ \E v \in FourBestSet : FourBestSet = v .. (v + 3)

\* C17: in both classifiers, a hand whose four best cards are four
\* consecutive values is never classified as a Draw 1.
C17_StraightDrawSkipped ==
    FourBestConsecutive =>
        /\ UTGClassified => ~IsDrawOneCategory(evaluation.category)
        /\ pc = "classified" =>
              \A p \in LearningPositions : ~IsDrawOneCategory(evaluations[p].category)

(***************************************************************************)
(* C18                                                                     *)
(***************************************************************************)
\* C18: a literal includes entry matches the candidates whose values are the
\* digits of the literal, in whatever order they are written: under the
\* built-in strategy a hand whose four best cards are 3, 5, 7, 8 is playable
\* at HJ through the draw-1 literal 8753 of HJ.
C18_LiteralMatchesAnyOrder ==
    (pc = "classified" /\ Cardinality(CardValues) >= 4 /\ FourBestSet = {3, 5, 7, 8}) =>
        evaluations["HJ"].isPlayable /\ evaluations["HJ"].correctAction = "raise"

(***************************************************************************)
(* C19                                                                     *)
(***************************************************************************)
\* C19: the includes entry all matches every candidate in whichever range it
\* is declared: at BTN under the built-in strategy every hand that holds a 2
\* and two other distinct values or more is playable, the hands that reach
\* the draw-2 check among them.
C19_AllMatchesInDrawTwo ==
    (pc = "classified" /\ 2 \in CardValues /\ Cardinality(CardValues) >= 3) =>
        evaluations["BTN"].isPlayable /\ evaluations["BTN"].correctAction = "raise"

(***************************************************************************)
(* C20                                                                     *)
(***************************************************************************)
\* the four-digit entries with a + that end in a repeated pair
PairPatterns ==
    {q \in InterpretPatterns :
        MatchesDigitsPlus(q, 4) /\ q[3] = q[4]}

\* both base cards are among the candidate and the paired card is there twice
HoldsBaseAndPair(q, candidate) ==
    /\ ArrIncludes(candidate, DigitVal(q[1]))
    /\ ArrIncludes(candidate, DigitVal(q[2]))
    /\ ValueCount(candidate, DigitVal(q[3])) >= 2

\* C20: interpretBetterHand on an entry such as 6322+ or 7622+ returns true
\* exactly when the candidate holds both base cards and two copies or more of
\* the paired card; a candidate without two copies of it never matches.
C20_PairPatternNeedsPair ==
    (pc = "interpreted" /\ patternIn \in PairPatterns) =>
        /\ matched <=> HoldsBaseAndPair(patternIn, testHandIn)
        /\ ValueCount(testHandIn, DigitVal(patternIn[3])) < 2 => ~matched

(***************************************************************************)
(* C21                                                                     *)
(***************************************************************************)
\* interpretBetterHand compared a candidate with a benchmark of another length
LengthMismatched ==
    /\ pc = "interpreted"
    /\ compared.called
    /\ Len(testHandIn) # Len(compared.benchmark)

\* C21: compareLowballHands called with two inputs of different lengths raises
\* an error instead of returning; no call made by interpretBetterHand obtains
\* a number from a comparison of inputs of different lengths.
C21_MismatchFailsLoudly ==
    LengthMismatched => compared.outcome = "throws"

(***************************************************************************)
(* C22                                                                     *)
(***************************************************************************)
\* the step is a submitted action in learning phase, of either variant
SubmittedInLearning ==
    /\ pc' \in {"handlePlayerAction", "pageHandlePlayerAction"}
    /\ gameState.phase = "learning"

\* the mistakes after the step are those before it, in order, and one more
AppendedOneMistake ==
    /\ Len(gameState'.mistakes) = Len(gameState.mistakes) + 1
    /\ SubSeq(gameState'.mistakes, 1, Len(gameState.mistakes)) = gameState.mistakes
    /\ LET record == gameState'.mistakes[Len(gameState'.mistakes)]
       IN  /\ record.hand = gameState.currentHand
           /\ record.userAction = gameState'.playerAction
           /\ record.correctAction = gameState.correctAction

\* C22: in learning phase of both variants a submitted action adds one to
\* score.total; an incorrect one appends one record (the current hand, the
\* chosen action, the correct action) after the existing mistakes, which keep
\* their order and content, and leaves score.correct; a correct one adds one
\* to score.correct and leaves mistakes.
C22_LearningScoring ==
    [][SubmittedInLearning =>
        /\ gameState'.score.total = gameState.score.total + 1
        /\ IF gameState'.playerAction = gameState.correctAction
           THEN /\ gameState'.score.correct = gameState.score.correct + 1
                /\ gameState'.mistakes = gameState.mistakes
           ELSE /\ gameState'.score.correct = gameState.score.correct
                /\ AppendedOneMistake]_vars

\* page.tsx variant: two mistakes of different content and a correct answer
C22_Witness ==
    /\ pc = "pageHandlePlayerAction"
    /\ gameState.phase = "learning"
    /\ gameState.score = [correct |-> 1, total |-> 3]
    /\ Len(gameState.mistakes) = 2
    /\ gameState.mistakes[1] # gameState.mistakes[2]
    /\ gameState.playerAction # gameState.correctAction

(***************************************************************************)
(* C23                                                                     *)
(***************************************************************************)
\* the step is a submitted action in drill phase
SubmittedInDrill ==
    /\ pc' = "handlePlayerAction"
    /\ gameState.phase = "drill"

\* C23: in drill phase a submitted action adds one to totalReviewed, adds one
\* to correctOnReview exactly when it is the correct action, and leaves
\* mistakes, the mistake pool, the current index and the score.
C23_DrillScoring ==
    [][SubmittedInDrill =>
        LET before == gameState.drillMode
            after == gameState'.drillMode
            isCorrect == gameState'.playerAction = gameState.correctAction
        IN  /\ after.reviewStats.totalReviewed = before.reviewStats.totalReviewed + 1
            /\ after.reviewStats.correctOnReview =
                   before.reviewStats.correctOnReview + (IF isCorrect THEN 1 ELSE 0)
            /\ gameState'.mistakes = gameState.mistakes
            /\ after.mistakePool = before.mistakePool
            /\ after.currentMistakeIndex = before.currentMistakeIndex
            /\ gameState'.score = gameState.score]_vars

\* the second mistake of the pool answered, one answer right and one wrong
C23_Witness ==
    /\ pc = "handlePlayerAction"
    /\ gameState.phase = "drill"
    /\ gameState.drillMode.currentMistakeIndex = 1
    /\ gameState.drillMode.reviewStats = [totalReviewed |-> 2, correctOnReview |-> 1]

(***************************************************************************)
(* C24                                                                     *)
(***************************************************************************)
\* the state after the step is the one a deal leaves behind in learning phase
ReturnedToLearning ==
    /\ gameState'.phase = "learning"
    /\ ~gameState'.drillMode.isActive
    /\ gameState'.currentHand \in DealtHands
    /\ gameState'.correctAction = evaluateUTGHand(gameState'.currentHand).correctAction
    /\ ~gameState'.showAnswer
    /\ gameState'.playerAction = None

\* the state after the step shows the mistake at index i of the pool
LoadedMistake(i) ==
    /\ gameState'.phase = "drill"
    /\ gameState'.drillMode.isActive
    /\ gameState'.drillMode.currentMistakeIndex = i
    /\ gameState'.drillMode.mistakePool = gameState.drillMode.mistakePool
    /\ gameState'.currentHand = gameState.drillMode.mistakePool[i + 1].hand
    /\ ~gameState'.showAnswer

\* C24: in drill phase, advancing at index i loads the mistake at index i + 1
\* and stays in drill when i + 1 is less than the pool size, and otherwise
\* returns to learning phase, inactive, with a fresh hand dealt;
\* exitDrillMode returns to learning in the same way from any index; no other
\* operation leaves drill phase.
C24_DrillAdvance ==
    [][gameState.phase = "drill" =>
        LET i == gameState.drillMode.currentMistakeIndex
            n == Len(gameState.drillMode.mistakePool)
        IN  /\ pc' = "nextHand" =>
                  IF i + 1 < n THEN LoadedMistake(i + 1) ELSE ReturnedToLearning
            /\ pc' = "exitDrillMode" => ReturnedToLearning
            /\ gameState'.phase # "drill" => pc' \in {"nextHand", "exitDrillMode"}]_vars

\* a pool of two mistakes was gone through to its end by the Next button
C24_Witness ==
    /\ pc = "nextHand"
    /\ gameState.phase = "learning"
    /\ ~gameState.drillMode.isActive
    /\ Len(gameState.drillMode.mistakePool) = 2
    /\ gameState.drillMode.currentMistakeIndex = 1
    /\ gameState.drillMode.reviewStats.totalReviewed = 2

(***************************************************************************)
(* C25                                                                     *)
(***************************************************************************)
\* the action is raise or fold, and the hand is playable exactly when it is raise
WellFormedResult(r) ==
    /\ r.correctAction \in {"raise", "fold"}
    /\ r.isPlayable \in BOOLEAN
    /\ r.isPlayable <=> (r.correctAction = "raise")

HasSpecialShape ==
    /\ Cardinality(CardValues) = 5
    /\ {2, 3, 6} \subseteq CardValues \/ {2, 6, 7} \subseteq CardValues
    /\ \E v \in CardValues : v > 8

\* the hand passes the steps before the special rule undecided
ReachesSpecialRule ==
    /\ ~IsPatCategory(evaluation.category)
    /\ ~NamesTrap(evaluation.category)
    /\ ~IsDrawOneCategory(evaluation.category)

UnreadPartsEmptied(strats) ==
    [i \in DOMAIN strats |->
        [strats[i] EXCEPT !.draw3Hands = NoRange,
                          !.draw4Hands = NoRange,
                          !.patHands.excludes = <<>>,
                          !.draw2Hands.excludes = <<>>]]

\* what the claim compares of a classification, thrown errors included
Compared(r) ==
    <<r.status, r.isPlayable, r.correctAction, r.category, r.ruleUsed, r.benchmark>>

\* the stored set classifies the hand at p as the emptied set does
SameAsEmptied(p) ==
    Compared(evaluations[p]) =
        Compared(evaluateHandForPosition(UnreadPartsEmptied(positionStrategies),
                                         currentHand, p))

\* every inheritsFrom of the stored set names a stored position
ParentsStored ==
    \A i \in DOMAIN positionStrategies :
        positionStrategies[i].inheritsFrom \in StoredPositions \cup {None}

DecidedBySpecialOrBlocker ==
    \/ evaluation.category \in {<<"Weak Draw 2">>, <<"Draw 2 (Special Blocker)">>}
    \/ evaluation.category = <<"Draw 3 (3322x Blocker)">>
    \/ evaluation.category[1] = "Draw 3 (" /\ evaluation.category[3] = "222x Blocker)"

\* C28: for every hand of ranks 2 to T, evaluateHandForPosition at UTG under
\* the built-in strategy set returns the action evaluateUTGHand returns,
\* unless evaluateUTGHand decides the hand by its special 632/762 rule or by
\* its draw-3 blocker rule.
C28_UTGAgreement ==
    (pc = "classified" /\ (\A v \in CardValues : v <= MaxPageValue)
        /\ ~DecidedBySpecialOrBlocker) =>
        /\ evaluations["UTG"].status = "ok"
        /\ evaluations["UTG"].correctAction = evaluation.correctAction

\* a T-high hand that both classifiers raise as a draw 2 under the benchmark 842
C28_Witness ==
    /\ pc = "classified"
    /\ 10 \in CardValues
    /\ evaluation.category = <<"Draw 2 (", "8", "4", "2", "+)">>
    /\ evaluation.correctAction = "raise"
    /\ evaluations["UTG"].correctAction = "raise"
    /\ evaluations["UTG"].benchmark = <<"8", "4", "2", "+">>

(***************************************************************************)
(* C29                                                                     *)
(***************************************************************************)
\* C29: in every state the buttons of the learning and drill screens lead
\* to, drillMode.isActive is true exactly when the phase is drill, and in
\* drill phase the pool is not empty, it equals mistakes, the current index
\* lies within it and the current hand is that of the mistake at the index.
C29_DrillInvariant ==
    LET drill == gameState.drillMode
    IN  /\ drill.isActive <=> (gameState.phase = "drill")
        /\ gameState.phase = "drill" =>
               /\ Len(drill.mistakePool) > 0
               /\ drill.mistakePool = gameState.mistakes
               /\ drill.currentMistakeIndex \in 0 .. (Len(drill.mistakePool) - 1)
               /\ gameState.currentHand =
                      drill.mistakePool[drill.currentMistakeIndex + 1].hand

\* the second mistake of a pool of two is on show, after a drill left and begun again
C29_Witness ==
    /\ gameState.phase = "drill"
    /\ gameState.drillMode.isActive
    /\ Len(gameState.drillMode.mistakePool) = 2
    /\ gameState.drillMode.currentMistakeIndex = 1
    /\ gameState.score.total = MaxHandsPlayed
    /\ gameState.showAnswer

(***************************************************************************)
(* C30                                                                     *)
(***************************************************************************)
InDrill == gameState.phase = "drill"

DrillOver == gameState.phase = "learning" /\ ~gameState.drillMode.isActive

\* inside the drill Next moves the index up by one and every other step keeps it
IndexOnlyAdvances ==
    (InDrill /\ InDrill') =>
        gameState'.drillMode.currentMistakeIndex =
            gameState.drillMode.currentMistakeIndex + (IF pc' = "nextHand" THEN 1 ELSE 0)

\* Next ends the drill at the last index, every mistake answered once
EndsAfterWholePool ==
    (InDrill /\ ~InDrill' /\ pc' = "nextHand") =>
        /\ gameState.drillMode.currentMistakeIndex + 1 =
               Len(gameState.drillMode.mistakePool)
        /\ gameState'.drillMode.reviewStats.totalReviewed =
               Len(gameState.drillMode.mistakePool)
        /\ DrillOver'

\* C30: with a user who keeps answering and advancing, an active drill
\* always comes back to learning phase with isActive false; it always
\* offers an answer button or Next, its index never goes back or repeats
\* after an advance, and when Next ends it every mistake of the pool has
\* been answered exactly once.
C30_DrillTerminates ==
    /\ InDrill ~> DrillOver
    /\ [](InDrill => (pc # "init" /\ ~gameState.showAnswer) \/ gameState.showAnswer)
    /\ [][IndexOnlyAdvances /\ EndsAfterWholePool]_vars

\* Next has just ended a drill of two mistakes, both answered
C30_Witness ==
    /\ pc = "nextHand"
    /\ DrillOver
    /\ Len(gameState.drillMode.mistakePool) = 2
    /\ gameState.drillMode.currentMistakeIndex = 1
    /\ gameState.drillMode.reviewStats.totalReviewed = 2

====
